---- MODULE Spec2Model ----
(***************************************************************************)
(* A model of topo_gen: link address allocation (links.py), the topology   *)
(* strategies (topology/*.py), the interface resolver, the construction of *)
(* a TopologyConfig, router generation (engine.py), calculate_direction,   *)
(* generate_loopback_ipv6, the methods of Direction, the run of            *)
(* TopologyEngine.generate_topology over the writers of filesystem.py and  *)
(* the eBGP interfaces of generators/config.py.                            *)
(*                                                                         *)
(* Python values are modelled as follows:                                  *)
(*   Coordinate          [row |-> r, col |-> c]                            *)
(*   Direction           "north", "south", "west", "east" (enum order)     *)
(*   Dict[Direction, X]  a function whose domain is a set of Directions;   *)
(*                       the dicts used here are filled in enum order      *)
(*   IPv6 address/net    [groups |-> <<g0..g7>>, plen |-> n], the eight    *)
(*                       16-bit groups the text parses to                  *)
(*   router name         <<d1, d2, d3, d4>>, the digits of                 *)
(*                       router_{row:02d}_{col:02d}                        *)
(*   a raised exception  [err |-> "TypeError"] and the like                *)
(*   area_size           NoValue for None, [value |-> n] otherwise         *)
(*   as_number           NoValue for None, the number otherwise            *)
(*   dotted quads        <<a, b, c, d>> (router id, area id)               *)
(*   a directory         the record of the parts its name is formatted     *)
(*                       from, or [custom |-> name] for an output_dir      *)
(***************************************************************************)
EXTENDS Integers, Sequences, FiniteSets, TLC

VARIABLES
    pc,          \* the position of the caller (which call comes next)
    col_count,   \* generate_link_ipv6: argument col_count
    coord1,      \* generate_link_ipv6: argument coord1
    coord2,      \* generate_link_ipv6: argument coord2
    link,        \* generate_link_ipv6: the returned LinkAddress, or NoValue
    config,      \* the TopologyConfig of the run
    qcoord,      \* the coordinate a neighbor function is applied to
    nbrs,        \* the outcome of that application, or NoValue
    routers,     \* the router list of the run, or NoValue
    links,       \* the outcome of generate_all_links(config), or NoValue
    mappings,    \* the outcome of generate_interface_mappings, or NoValue
    clab,        \* the outcome of convert_links_to_clab_format, or NoValue
    call_args,   \* the arguments of the call of a single function
    result,      \* the outcome of that call, or NoValue
    steps        \* generate_topology: the steps performed so far, or NoValue

linkVars == <<col_count, coord1, coord2, link>>
runVars == <<config, routers, links, mappings, clab>>
nbrVars == <<qcoord, nbrs>>
callVars == <<call_args, result>>
vars == <<pc, col_count, coord1, coord2, link, config, qcoord, nbrs, routers, links,
          mappings, clab, call_args, result, steps>>

NoValue == [none |-> TRUE]

(***************************************************************************)
(* Bounds of the model.                                                    *)
(***************************************************************************)
\* largest col_count (grid size) handed to generate_link_ipv6
MaxColCount == 17
\* largest column index of an endpoint handed to generate_link_ipv6
MaxLinkCol == 1

\* Spec: the largest size, and the most bridge edges of either kind in a
\* small special configuration
MaxSize == 6
MaxRunBridges == 1

\* NbrSpec: the largest size, and the most internal and torus bridge edges
MaxNbrSize == 4
MaxInternalEdges == 2
MaxTorusEdges == 2

\* TopologyConfig.size: Field(ge=2, ...)
MinSize == 2

Coord(r, c) == [row |-> r, col |-> c]

\* the coordinates of a size x size grid
GridCoords(size) == { Coord(r, c) : r \in 0..(size - 1), c \in 0..(size - 1) }

(***************************************************************************)
(* links.py: generate_link_ipv6                                            *)
(***************************************************************************)
\* f"router_{coord.row:02d}_{coord.col:02d}": two decimal digits each
\* (Coordinate bounds row and col to 0..99)
RouterNameOf(coord) ==
    << coord.row \div 10, coord.row % 10, coord.col \div 10, coord.col % 10 >>

\* node id of a coordinate: coord.row * col_count + coord.col
NodeId(cols, coord) == coord.row * cols + coord.col

\* the link id of the ordered ids (node1_id <= node2_id after the swap)
LinkId(node1_id, node2_id) ==
    IF node1_id < node2_id
    THEN ((node1_id + node2_id) * (node1_id + node2_id + 1)) \div 2 + node2_id
    ELSE ((node1_id + node2_id) * (node1_id + node2_id + 1)) \div 2 + node1_id

\* subnet_id = link_id % 2**78. Every link id of a grid of at most 100 x 100
\* nodes is below 2**28, so the reduction returns link_id itself.
SubnetId(link_id) == link_id

\* (subnet_id >> 16) & 0xFFFF
Segment1(subnet_id) == (subnet_id \div 65536) % 65536
\* subnet_id & 0xFFFF
Segment2(subnet_id) == subnet_id % 65536

\* ipv6_suffix, as the list of groups its text denotes: "{segment1:x}:{segment2:04x}"
\* when segment1 > 0, else "{segment2:04x}"
Ipv6Suffix(subnet_id) ==
    IF Segment1(subnet_id) > 0
    THEN << Segment1(subnet_id), Segment2(subnet_id) >>
    ELSE << Segment2(subnet_id) >>

\* the groups "2001:db8:2000:" stands for
LinkPrefixGroups == << 8193, 3512, 8192 >>

\* the eight groups of the text  <head groups>::  ("::" stands for the zero
\* groups that fill the address up to eight)
ExpandGroups(head) == head \o [i \in 1..(8 - Len(head)) |-> 0]

\* ipaddress.IPv6Network(f"2001:db8:2000:{ipv6_suffix}::/126")
LinkNetwork126(subnet_id) ==
    [groups |-> ExpandGroups(LinkPrefixGroups \o Ipv6Suffix(subnet_id)), plen |-> 126]

\* AddrPlus with the hosts taken one further up (::2 and ::4)
AddrPlusShifted(groups, k) == [groups EXCEPT ![8] = @ + k + 1]

\* network_address + k for a small k: the last group of a link network is 0
AddrPlus(groups, k) == [groups EXCEPT ![8] = @ + k]

\* generate_link_ipv6 without the swap that orders the two endpoints
generate_link_ipv6_unordered(cols, c1, c2) ==
    LET net == LinkNetwork126(SubnetId(LinkId(NodeId(cols, c1), NodeId(cols, c2))))
    IN  [ network |-> net,
          router1_addr |-> [groups |-> AddrPlus(net.groups, 1), plen |-> 127],
          router2_addr |-> [groups |-> AddrPlus(net.groups, 3), plen |-> 127],
          router1_name |-> RouterNameOf(c1),
          router2_name |-> RouterNameOf(c2) ]

generate_link_ipv6(cols, c1, c2) ==
    LET swap == NodeId(cols, c1) > NodeId(cols, c2)
        first == IF swap THEN c2 ELSE c1
        second == IF swap THEN c1 ELSE c2
        node1_id == NodeId(cols, first)
        node2_id == NodeId(cols, second)
        net == LinkNetwork126(SubnetId(LinkId(node1_id, node2_id)))
    IN  [ network |-> net,
          router1_addr |-> [groups |-> AddrPlus(net.groups, 1), plen |-> 127],
          router2_addr |-> [groups |-> AddrPlus(net.groups, 3), plen |-> 127],
          router1_name |-> RouterNameOf(first),
          router2_name |-> RouterNameOf(second) ]

(***************************************************************************)
(* core/types.py: Direction                                                *)
(***************************************************************************)
\* the members of Direction, in the order "for direction in Direction" visits
DirectionOrder == << "north", "south", "west", "east" >>

Direction == { DirectionOrder[i] : i \in 1..4 }

\* Direction.vector
DirVector(d) ==
    CASE d = "north" -> [row |-> -1, col |-> 0]
      [] d = "south" -> [row |-> 1, col |-> 0]
      [] d = "west" -> [row |-> 0, col |-> -1]
      [] d = "east" -> [row |-> 0, col |-> 1]

\* Direction.opposite
opposite(d) ==
    CASE d = "north" -> "south"
      [] d = "south" -> "north"
      [] d = "west" -> "east"
      [] d = "east" -> "west"

\* Direction.rotate_clockwise
rotate_clockwise(d) ==
    CASE d = "north" -> "east"
      [] d = "east" -> "south"
      [] d = "south" -> "west"
      [] d = "west" -> "north"

\* a quarter turn that exchanges NORTH with WEST and SOUTH with EAST
rotate_mirrored(d) ==
    CASE d = "north" -> "west"
      [] d = "west" -> "north"
      [] d = "south" -> "east"
      [] d = "east" -> "south"

\* Direction.rotate_counterclockwise
rotate_counterclockwise(d) ==
    CASE d = "north" -> "west"
      [] d = "west" -> "south"
      [] d = "south" -> "east"
      [] d = "east" -> "north"

\* an empty dict
EmptyMap == [d \in {} |-> NoValue]

\* dict m with m[k] = v set
MapPut(m, k, v) == [x \in DOMAIN m \cup {k} |-> IF x = k THEN v ELSE m[x]]

\* the values of a Direction-keyed dict that was filled in enum order
ValuesInOrder(m) ==
    LET keys == SelectSeq(DirectionOrder, LAMBDA d : d \in DOMAIN m)
    IN  [i \in 1..Len(keys) |-> m[keys[i]]]

(***************************************************************************)
(* topology/base.py, grid.py, torus.py, strip.py: neighbors and node types *)
(***************************************************************************)
\* get_neighbor_in_direction: the neighbor inside the grid, or None
get_neighbor_in_direction(coord, d, size) ==
    LET new_row == coord.row + DirVector(d).row
        new_col == coord.col + DirVector(d).col
    IN  IF 0 <= new_row /\ new_row < size /\ 0 <= new_col /\ new_col < size
        THEN Coord(new_row, new_col)
        ELSE NoValue

\* get_torus_neighbor_in_direction: both axes wrap
get_torus_neighbor_in_direction(coord, d, rows, cols) ==
    Coord((coord.row + DirVector(d).row) % rows, (coord.col + DirVector(d).col) % cols)

\* _get_strip_neighbor: rows wrap, columns are open
get_strip_neighbor(coord, d, size) ==
    IF d \in {"north", "south"}
    THEN get_torus_neighbor_in_direction(coord, d, size, size)
    ELSE get_neighbor_in_direction(coord, d, size)

\* NeighborMapper.build_neighbor_map with get_neighbor_in_direction
\* (GridTopology.get_neighbors)
GridNeighbors(coord, size) ==
    [d \in { x \in Direction : get_neighbor_in_direction(coord, x, size) # NoValue }
        |-> get_neighbor_in_direction(coord, d, size)]

\* TorusTopology.get_neighbors
TorusNeighbors(coord, rows, cols) ==
    [d \in Direction |-> get_torus_neighbor_in_direction(coord, d, rows, cols)]

\* NeighborMapper.build_neighbor_map with _get_strip_neighbor
\* (StripTopology.get_neighbors)
StripNeighbors(coord, size) ==
    [d \in { x \in Direction : get_strip_neighbor(coord, x, size) # NoValue }
        |-> get_strip_neighbor(coord, d, size)]

\* NodeTypeClassifier.classify_grid_node
classify_grid_node(coord, size) ==
    IF coord \in { Coord(0, 0), Coord(0, size - 1), Coord(size - 1, 0),
                   Coord(size - 1, size - 1) }
    THEN "corner"
    ELSE IF coord.row = 0 \/ coord.row = size - 1 \/ coord.col = 0 \/ coord.col = size - 1
         THEN "edge"
         ELSE "internal"

\* NodeTypeClassifier.classify_torus_node
classify_torus_node(coord, size) == "internal"

\* NodeTypeClassifier.classify_strip_node
classify_strip_node(coord, size) ==
    IF size <= 0 THEN "internal"
    ELSE IF coord.col = 0 \/ coord.col = size - 1 THEN "edge" ELSE "internal"

\* GridTopology.calculate_total_links
GridTotalLinks(size) == 2 * size * (size - 1)

\* TorusTopology.calculate_total_links (cols = None: a square torus)
TorusTotalLinks(rows) == 2 * rows * rows

\* StripTopology.calculate_total_links
StripTotalLinks(size) ==
    IF size <= 0 THEN 0
    ELSE size * size + size * (IF size - 1 > 0 THEN size - 1 ELSE 0)

(***************************************************************************)
(* topology/special.py                                                     *)
(***************************************************************************)
\* get_subregion_for_coord
get_subregion_for_coord(coord) ==
    (IF coord.row < 3 THEN 0 ELSE 1) * 2 + (IF coord.col < 3 THEN 0 ELSE 1)

\* is_cross_region_connection
is_cross_region_connection(c1, c2) ==
    get_subregion_for_coord(c1) # get_subregion_for_coord(c2)

\* get_filtered_grid_neighbors
get_filtered_grid_neighbors(coord, size) ==
    LET potential == GridNeighbors(coord, size)
    IN  [d \in { x \in DOMAIN potential : ~is_cross_region_connection(coord, potential[x]) }
            |-> potential[d]]

\* a first-free-direction search that falls back to NORTH when no direction
\* is free, so that a further edge replaces the NORTH entry
FirstFreeDirectionOrNorth(neighbors) ==
    LET free == SelectSeq(DirectionOrder, LAMBDA d : d \notin DOMAIN neighbors)
    IN  IF Len(free) > 0 THEN free[1] ELSE "north"

\* "for direction in Direction: if direction not in neighbors": the first free
\* Direction, or "none" when the loop ends without a break
FirstFreeDirection(neighbors) ==
    LET free == SelectSeq(DirectionOrder, LAMBDA d : d \notin DOMAIN neighbors)
    IN  IF Len(free) > 0 THEN free[1] ELSE "none"

\* one pass of a bridge-edge loop of SpecialTopology.get_neighbors over
\* edges[i..], starting from the dict neighbors
RECURSIVE AddBridgeEdges(_, _, _, _)
AddBridgeEdges(neighbors, edges, i, coord) ==
    IF i > Len(edges) THEN neighbors
    ELSE LET edge == edges[i]
             other == IF edge[1] = coord THEN edge[2]
                      ELSE IF edge[2] = coord THEN edge[1] ELSE NoValue
             d == FirstFreeDirection(neighbors)
         IN  IF other = NoValue \/ d = "none"
             THEN AddBridgeEdges(neighbors, edges, i + 1, coord)
             ELSE AddBridgeEdges(MapPut(neighbors, d, other), edges, i + 1, coord)

\* SpecialTopology.get_neighbors
SpecialGetNeighbors(coord, size, sc) ==
    LET base == IF sc.include_base_connections
                THEN IF sc.base_topology = "torus"
                     THEN TorusNeighbors(coord, size, size)
                     ELSE get_filtered_grid_neighbors(coord, size)
                ELSE EmptyMap
        withInternal == AddBridgeEdges(base, sc.internal_bridge_edges, 1, coord)
    IN  AddBridgeEdges(withInternal, sc.torus_bridge_edges, 1, coord)

\* SpecialTopology.calculate_total_links
SpecialTotalLinks(size, sc) ==
    (IF sc.include_base_connections
     THEN IF sc.base_topology = "torus" THEN 2 * size * size ELSE 2 * size * (size - 1)
     ELSE 0)
    + Len(sc.internal_bridge_edges)

(***************************************************************************)
(* topology/strategies.py: TopologyStrategy.get_neighbors_func             *)
(***************************************************************************)
\* the outcome of a call: a raised exception or a returned value
Err(name) == [err |-> name]
Ok(value) == [ok |-> value]
IsErr(v) == "err" \in DOMAIN v
IsOk(v) == "ok" \in DOMAIN v

\* TopologyStrategy.get_neighbors_func(topology_type, size, special_config=None),
\* called with the positional arguments args. The returned closure is modelled
\* by the data it closes over; NeighborsOf applies it.
StrategyGetNeighborsFunc(args) ==
    IF Len(args) > 3 \/ Len(args) < 2
    THEN Err("TypeError")
    ELSE LET topology_type == args[1]
             size == args[2]
             special_config == IF Len(args) = 3 THEN args[3] ELSE NoValue
         IN  IF topology_type = "grid" THEN Ok([kind |-> "grid", size |-> size])
             ELSE IF topology_type = "torus" THEN Ok([kind |-> "torus", size |-> size])
             ELSE IF topology_type = "strip" THEN Ok([kind |-> "strip", size |-> size])
             ELSE IF topology_type = "special" /\ special_config # NoValue
                  THEN Ok([kind |-> "special", size |-> size, sc |-> special_config])
                  ELSE Ok([kind |-> "grid", size |-> size])

\* the closure returned by TopologyStrategy.get_neighbors_func, applied to coord
NeighborsOf(nf, coord) ==
    CASE nf.kind = "grid" -> GridNeighbors(coord, nf.size)
      [] nf.kind = "torus" -> TorusNeighbors(coord, nf.size, nf.size)
      [] nf.kind = "strip" -> StripNeighbors(coord, nf.size)
      [] nf.kind = "special" -> SpecialGetNeighbors(coord, nf.size, nf.sc)

(***************************************************************************)
(* utils/topo.py and links.py: the link list of a configuration.           *)
(* A TopologyConfig is a record of its fields; reading a field the model   *)
(* class does not declare raises AttributeError.                           *)
(***************************************************************************)
\* the fields TopologyConfig declares that the model reads
TopologyConfigFields ==
    {"topology_type", "size", "special_config", "multi_area", "area_size", "bgp_config"}

\* get_topology_dimensions: <<rows, cols>>
get_topology_dimensions(cfg) ==
    IF cfg.topology_type = "torus"
    THEN IF {"rows", "cols"} \subseteq DOMAIN cfg
         THEN Ok(<<cfg.rows, cfg.cols>>)
         ELSE Err("AttributeError")
    ELSE Ok(<<cfg.size, cfg.size>>)

\* links.get_neighbors_func: forwards its four parameters positionally
get_neighbors_func(topology_type, rows, cols, special_config) ==
    StrategyGetNeighborsFunc(<<topology_type, rows, cols, special_config>>)

\* the coordinates in the order of "for row in range(rows): for col in range(cols)"
RowMajor(rows, cols) ==
    [i \in 1..(rows * cols) |-> Coord((i - 1) \div cols, (i - 1) % cols)]

\* the (coord, neighbor_coord) pairs the nested loops "for row, for col, for
\* neighbor_coord in neighbors.values()" visit, in their order: nb[coord] is
\* the neighbor dict of coord, whose keys were inserted in Direction order
CandidatePairs(coords, nb) ==
    LET slots == [k \in 1..(4 * Len(coords)) |->
                     <<coords[((k - 1) \div 4) + 1], DirectionOrder[((k - 1) % 4) + 1]>>]
        filled == SelectSeq(slots, LAMBDA x : x[2] \in DOMAIN nb[x[1]])
    IN  [k \in 1..Len(filled) |-> <<filled[k][1], nb[filled[k][1]][filled[k][2]]>>]

\* "pair = tuple(sorted([...]))": the unordered pair of two coordinates
PairKey(p) == {p[1], p[2]}

\* the positions of pairs that pass "if pair not in processed_pairs": those
\* whose unordered pair no earlier position holds
FirstOccurrences(pairs) ==
    SelectSeq([i \in 1..Len(pairs) |-> i],
              LAMBDA i : \A j \in 1..(i - 1) : PairKey(pairs[j]) # PairKey(pairs[i]))

\* the links appended for the positions kept
LinksAt(pairs, kept, cols) ==
    [k \in 1..Len(kept) |-> generate_link_ipv6(cols, pairs[kept[k]][1], pairs[kept[k]][2])]

\* the loop body "if pair not in processed_pairs: processed_pairs.add(pair);
\* links.append(generate_link_ipv6(col_count, a, b))" over all of pairs,
\* starting from an empty processed_pairs and an empty links
AddLinks(pairs, cols) == LinksAt(pairs, FirstOccurrences(pairs), cols)

\* the neighbor dicts get_filtered_grid_neighbors gives on a rows x rows grid
FilteredNeighborMaps(rows, size) ==
    [c \in GridCoords(rows) |-> get_filtered_grid_neighbors(c, size)]

\* generate_all_links, the branch of a special topology: the three loops
\* share processed_pairs and links
SpecialLinks(cfg, rows, cols) ==
    AddLinks((IF cfg.special_config.include_base_connections
              THEN CandidatePairs(RowMajor(rows, cols), FilteredNeighborMaps(rows, cfg.size))
              ELSE << >>)
             \o cfg.special_config.internal_bridge_edges
             \o cfg.special_config.torus_bridge_edges,
             cols)

\* generate_all_links, the torus loop: an east and a south link per node
TorusLinks(rows, cols) ==
    [k \in 1..(2 * rows * cols) |->
        LET coord == Coord(((k - 1) \div 2) \div cols, ((k - 1) \div 2) % cols)
        IN  IF k % 2 = 1
            THEN generate_link_ipv6(cols, coord, Coord(coord.row, (coord.col + 1) % cols))
            ELSE generate_link_ipv6(cols, coord, Coord((coord.row + 1) % rows, coord.col))]

\* the neighbor dicts of a neighbor function on a rows x rows grid
NeighborMaps(nf, rows) == [c \in GridCoords(rows) |-> NeighborsOf(nf, c)]

\* generate_all_links, the branch of the other topologies, nf being the
\* neighbor function get_neighbors_func returned
StandardLinks(nf, rows, cols) ==
    AddLinks(CandidatePairs(RowMajor(rows, cols), NeighborMaps(nf, rows)), cols)

\* generate_all_links from line 237 on: neighbors_factory is the outcome of
\* get_neighbors_func(config.topology_type, rows, cols)
LinksWithFactory(neighbors_factory, rows, cols) ==
    IF IsErr(neighbors_factory) THEN neighbors_factory
    ELSE Ok(StandardLinks(neighbors_factory.ok, rows, cols))

\* generate_all_links from line 166 on: dims is the outcome of
\* get_topology_dimensions(config)
LinksForDimensions(cfg, dims) ==
    IF IsErr(dims) THEN dims
    ELSE IF cfg.topology_type = "special" /\ cfg.special_config # NoValue
         THEN Ok(SpecialLinks(cfg, dims.ok[1], dims.ok[2]))
         ELSE IF cfg.topology_type = "torus" /\ dims.ok[1] > 1 /\ dims.ok[2] > 1
              THEN Ok(TorusLinks(dims.ok[1], dims.ok[2]))
              ELSE LinksWithFactory(
                       get_neighbors_func(cfg.topology_type, dims.ok[1], dims.ok[2], NoValue),
                       dims.ok[1], dims.ok[2])

\* generate_all_links(config): the list of links, or the exception raised
generate_all_links(cfg) == LinksForDimensions(cfg, get_topology_dimensions(cfg))

\* TopologyConfig.total_links
total_links(cfg) ==
    IF cfg.topology_type = "grid" THEN 2 * cfg.size * (cfg.size - 1)
    ELSE IF cfg.topology_type = "torus" THEN 2 * cfg.size * cfg.size
    ELSE IF cfg.topology_type = "strip" THEN cfg.size * cfg.size + cfg.size * (cfg.size - 1)
    ELSE IF cfg.topology_type = "special" /\ cfg.special_config # NoValue
    THEN (IF cfg.special_config.include_base_connections
          THEN IF cfg.special_config.base_topology = "torus"
               THEN 2 * cfg.size * cfg.size
               ELSE 2 * cfg.size * (cfg.size - 1)
          ELSE 0)
         + Len(cfg.special_config.internal_bridge_edges)
         + Len(cfg.special_config.torus_bridge_edges)
    ELSE 0

(***************************************************************************)
(* links.py: interface mappings and the ContainerLab link list             *)
(***************************************************************************)
\* core/types.py INTERFACE_MAPPING: the interface of a direction
INTERFACE_MAPPING(d) ==
    CASE d = "north" -> "eth1"
      [] d = "south" -> "eth2"
      [] d = "west" -> "eth3"
      [] d = "east" -> "eth4"

\* core/types.py REVERSE_DIRECTION
REVERSE_DIRECTION(d) ==
    CASE d = "north" -> "south"
      [] d = "south" -> "north"
      [] d = "west" -> "east"
      [] d = "east" -> "west"

Abs(x) == IF x < 0 THEN -x ELSE x

Min(a, b) == IF a < b THEN a ELSE b

\* a direction rule without the wraparound cases
calculate_direction_without_wrap(from_coord, to_coord, rows, cols) ==
    LET row_diff == to_coord.row - from_coord.row
        col_diff == to_coord.col - from_coord.col
    IN  IF row_diff = -1 /\ col_diff = 0 THEN "north"
        ELSE IF row_diff = 1 /\ col_diff = 0 THEN "south"
        ELSE IF row_diff = 0 /\ col_diff = -1 THEN "west"
        ELSE IF row_diff = 0 /\ col_diff = 1 THEN "east"
        ELSE IF Abs(row_diff) > 1 \/ Abs(col_diff) > 1
             THEN IF Abs(row_diff) >= Abs(col_diff)
                  THEN (IF row_diff < 0 THEN "north" ELSE "south")
                  ELSE (IF col_diff < 0 THEN "west" ELSE "east")
             ELSE "none"

\* a direction rule that answers "north" and "west" for both wraparound deltas
calculate_direction_wrap_one_way(from_coord, to_coord, rows, cols) ==
    LET row_diff == to_coord.row - from_coord.row
        col_diff == to_coord.col - from_coord.col
        wrap_row == rows - 1
        wrap_col == cols - 1
    IN  IF row_diff = -1 /\ col_diff = 0 THEN "north"
        ELSE IF row_diff = 1 /\ col_diff = 0 THEN "south"
        ELSE IF row_diff = 0 /\ col_diff = -1 THEN "west"
        ELSE IF row_diff = 0 /\ col_diff = 1 THEN "east"
        ELSE IF Abs(row_diff) = wrap_row /\ col_diff = 0 THEN "north"
        ELSE IF row_diff = 0 /\ Abs(col_diff) = wrap_col THEN "west"
        ELSE IF Abs(row_diff) > 1 \/ Abs(col_diff) > 1
             THEN IF Abs(row_diff) >= Abs(col_diff)
                  THEN (IF row_diff < 0 THEN "north" ELSE "south")
                  ELSE (IF col_diff < 0 THEN "west" ELSE "east")
             ELSE "none"

\* links.calculate_direction: a Direction, or "none" for None
calculate_direction(from_coord, to_coord, rows, cols) ==
    LET row_diff == to_coord.row - from_coord.row
        col_diff == to_coord.col - from_coord.col
        wrap_row == rows - 1
        wrap_col == cols - 1
    IN  IF row_diff = -1 /\ col_diff = 0 THEN "north"
        ELSE IF row_diff = 1 /\ col_diff = 0 THEN "south"
        ELSE IF row_diff = 0 /\ col_diff = -1 THEN "west"
        ELSE IF row_diff = 0 /\ col_diff = 1 THEN "east"
        ELSE IF row_diff = wrap_row /\ col_diff = 0 THEN "north"
        ELSE IF row_diff = -wrap_row /\ col_diff = 0 THEN "south"
        ELSE IF row_diff = 0 /\ col_diff = wrap_col THEN "west"
        ELSE IF row_diff = 0 /\ col_diff = -wrap_col THEN "east"
        ELSE IF Abs(row_diff) > 1 \/ Abs(col_diff) > 1
             THEN IF Abs(row_diff) >= Abs(col_diff)
                  THEN (IF row_diff < 0 THEN "north" ELSE "south")
                  ELSE (IF col_diff < 0 THEN "west" ELSE "east")
             ELSE "none"

\* a direction rule whose dominant axis is the column axis on a tie
direction_calculate_direction_col_first(from_coord, to_coord, size) ==
    LET row_diff == to_coord.row - from_coord.row
        col_diff == to_coord.col - from_coord.col
        wrap_distance == size - 1
    IN  IF row_diff = -1 /\ col_diff = 0 THEN "north"
        ELSE IF row_diff = 1 /\ col_diff = 0 THEN "south"
        ELSE IF row_diff = 0 /\ col_diff = -1 THEN "west"
        ELSE IF row_diff = 0 /\ col_diff = 1 THEN "east"
        ELSE IF row_diff = wrap_distance /\ col_diff = 0 THEN "north"
        ELSE IF row_diff = -wrap_distance /\ col_diff = 0 THEN "south"
        ELSE IF row_diff = 0 /\ col_diff = wrap_distance THEN "west"
        ELSE IF row_diff = 0 /\ col_diff = -wrap_distance THEN "east"
        ELSE IF Abs(row_diff) > 1 \/ Abs(col_diff) > 1
             THEN IF Abs(row_diff) > Abs(col_diff)
                  THEN (IF row_diff < 0 THEN "north" ELSE "south")
                  ELSE (IF col_diff < 0 THEN "west" ELSE "east")
             ELSE "none"

\* utils/direction.py calculate_direction(from_coord, to_coord, size): a
\* Direction, or "none" for None
direction_calculate_direction(from_coord, to_coord, size) ==
    LET row_diff == to_coord.row - from_coord.row
        col_diff == to_coord.col - from_coord.col
        wrap_distance == size - 1
    IN  IF row_diff = -1 /\ col_diff = 0 THEN "north"
        ELSE IF row_diff = 1 /\ col_diff = 0 THEN "south"
        ELSE IF row_diff = 0 /\ col_diff = -1 THEN "west"
        ELSE IF row_diff = 0 /\ col_diff = 1 THEN "east"
        ELSE IF row_diff = wrap_distance /\ col_diff = 0 THEN "north"
        ELSE IF row_diff = -wrap_distance /\ col_diff = 0 THEN "south"
        ELSE IF row_diff = 0 /\ col_diff = wrap_distance THEN "west"
        ELSE IF row_diff = 0 /\ col_diff = -wrap_distance THEN "east"
        ELSE IF Abs(row_diff) > 1 \/ Abs(col_diff) > 1
             THEN IF Abs(row_diff) >= Abs(col_diff)
                  THEN (IF row_diff < 0 THEN "north" ELSE "south")
                  ELSE (IF col_diff < 0 THEN "west" ELSE "east")
             ELSE "none"

\* links.find_available_direction: the first direction the neighbor function
\* leaves free at coord, NORTH when it leaves none
find_available_direction(coord, nf) ==
    LET d == FirstFreeDirection(NeighborsOf(nf, coord))
    IN  IF d = "none" THEN "north" ELSE d

\* links.find_available_direction_for_torus_bridge
find_available_direction_for_torus_bridge(coord, existing_interfaces) ==
    LET free == SelectSeq(DirectionOrder,
                          LAMBDA d : INTERFACE_MAPPING(d) \notin DOMAIN existing_interfaces)
    IN  IF Len(free) > 0 THEN free[1] ELSE "north"

\* router_coords.get(name): the coordinate of the router called name, or None
RouterCoord(rs, name) ==
    IF \E i \in 1..Len(rs) : rs[i].name = name
    THEN rs[CHOOSE i \in 1..Len(rs) : rs[i].name = name].coordinate
    ELSE NoValue

\* interface_mappings[name][intf] = addr
SetInterface(im, name, intf, addr) ==
    [im EXCEPT ![name] = MapPut(im[name], intf, addr)]

\* "if direction1 is None: direction1 = find_available_direction(...)"
DirectionOrAvailable(dir, coord, nf) ==
    IF dir = "none" THEN find_available_direction(coord, nf) ELSE dir

\* one of the two assignments "interface_mappings[name][intf] = addr" of a
\* link, direction1 being the direction at router1
WriteAt(l, first, direction1) ==
    IF first
    THEN [name |-> l.router1_name, intf |-> INTERFACE_MAPPING(direction1),
          addr |-> l.router1_addr]
    ELSE [name |-> l.router2_name, intf |-> INTERFACE_MAPPING(REVERSE_DIRECTION(direction1)),
          addr |-> l.router2_addr]

\* the assignment of a link whose routers have the coordinates c1 and c2, or
\* NoValue for the "continue" of a link with a router that is not in the list
WriteOf(l, first, c1, c2, rows, cols, nf) ==
    IF c1 = NoValue \/ c2 = NoValue THEN NoValue
    ELSE WriteAt(l, first,
                 DirectionOrAvailable(calculate_direction(c1, c2, rows, cols), c1, nf))

\* the assignments of the loop "for link in links", in the order they are
\* made: those of ls[i] are at 2i-1 (router1) and 2i (router2)
LinkWrites(ls, rs, rows, cols, nf) ==
    [k \in 1..(2 * Len(ls)) |->
        WriteOf(ls[(k + 1) \div 2], k % 2 = 1,
                RouterCoord(rs, ls[(k + 1) \div 2].router1_name),
                RouterCoord(rs, ls[(k + 1) \div 2].router2_name),
                rows, cols, nf)]

\* the positions of the assignments made to interface intf of router name
WritesTo(writes, name, intf) ==
    { k \in 1..Len(writes) :
        writes[k] # NoValue /\ writes[k].name = name /\ writes[k].intf = intf }

\* the interfaces of router name that some assignment is made to
InterfacesWritten(writes, name) ==
    { writes[k].intf : k \in { j \in 1..Len(writes) :
                                   writes[j] # NoValue /\ writes[j].name = name } }

Max(S) == CHOOSE m \in S : \A k \in S : k <= m

\* the dicts after the assignments writes, made in order to the dicts im: the
\* last assignment to an interface is the one that stays
ApplyWrites(im, writes) ==
    [n \in DOMAIN im |->
        [x \in DOMAIN im[n] \cup InterfacesWritten(writes, n) |->
            IF WritesTo(writes, n, x) = {} THEN im[n][x]
            ELSE writes[Max(WritesTo(writes, n, x))].addr]]

\* generate_interface_mappings, the loop "for link in links" over ls,
\* starting from the dicts im
AssignLinks(im, ls, rs, rows, cols, nf) ==
    ApplyWrites(im, LinkWrites(ls, rs, rows, cols, nf))

\* "if direction1 is None: direction1 = find_available_direction_for_torus_bridge(...)"
DirectionOrBridgeSlot(dir, coord, existing_interfaces) ==
    IF dir = "none"
    THEN find_available_direction_for_torus_bridge(coord, existing_interfaces)
    ELSE dir

\* "if intf not in interface_mappings[name]: interface_mappings[name][intf] = addr"
SetInterfaceIfUnused(im, name, intf, addr) ==
    IF intf \notin DOMAIN im[name] THEN SetInterface(im, name, intf, addr) ELSE im

\* the two guarded assignments of one torus bridge edge (c1, c2)
AssignTorusBridge(im, c1, c2, l, direction1) ==
    SetInterfaceIfUnused(
        SetInterfaceIfUnused(im, RouterNameOf(c1), INTERFACE_MAPPING(direction1),
                             l.router1_addr),
        RouterNameOf(c2), INTERFACE_MAPPING(REVERSE_DIRECTION(direction1)), l.router2_addr)

\* generate_interface_mappings, the loop over torus_bridge_edges[i..]
RECURSIVE AssignTorusBridges(_, _, _, _, _)
AssignTorusBridges(im, edges, i, rows, cols) ==
    IF i > Len(edges) THEN im
    ELSE IF RouterNameOf(edges[i][1]) \in DOMAIN im /\ RouterNameOf(edges[i][2]) \in DOMAIN im
         THEN AssignTorusBridges(
                  AssignTorusBridge(im, edges[i][1], edges[i][2],
                      generate_link_ipv6(cols, edges[i][1], edges[i][2]),
                      DirectionOrBridgeSlot(
                          calculate_direction(edges[i][1], edges[i][2], rows, cols),
                          edges[i][1], im[RouterNameOf(edges[i][1])])),
                  edges, i + 1, rows, cols)
         ELSE AssignTorusBridges(im, edges, i + 1, rows, cols)

\* an optional argument that is given: Given(v); one left at None: NoValue
Given(v) == [value |-> v]

\* "interface_mappings = {router.name: {} for router in routers}"
EmptyMappings(rs) == [n \in { rs[i].name : i \in 1..Len(rs) } |-> EmptyMap]

\* generate_interface_mappings after its three calls: the two loops
InterfaceMappingsOf(cfg, rs, ls, rows, cols, nf) ==
    IF cfg.topology_type = "special"
       /\ cfg.special_config # NoValue
       /\ Len(cfg.special_config.torus_bridge_edges) > 0
    THEN AssignTorusBridges(AssignLinks(EmptyMappings(rs), ls, rs, rows, cols, nf),
                            cfg.special_config.torus_bridge_edges, 1, rows, cols)
    ELSE AssignLinks(EmptyMappings(rs), ls, rs, rows, cols, nf)

\* "if links is None: links = generate_all_links(config)"
LinksOrGenerated(cfg, links_arg) ==
    IF links_arg = NoValue THEN generate_all_links(cfg) ELSE Ok(links_arg.value)

\* generate_interface_mappings from line 269 on: neighbors_func is the
\* outcome of get_neighbors_func(...)
MappingsWithNeighbors(cfg, rs, ls, rows, cols, neighbors_func) ==
    IF IsErr(neighbors_func) THEN neighbors_func
    ELSE Ok(InterfaceMappingsOf(cfg, rs, ls, rows, cols, neighbors_func.ok))

\* generate_interface_mappings from line 265 on: ls and dims are the outcomes
\* of the calls of lines 263-265
MappingsForLinks(cfg, rs, ls, dims) ==
    IF IsErr(ls) THEN ls
    ELSE IF IsErr(dims) THEN dims
    ELSE MappingsWithNeighbors(cfg, rs, ls.ok, dims.ok[1], dims.ok[2],
             get_neighbors_func(cfg.topology_type, dims.ok[1], dims.ok[2],
                                cfg.special_config))

\* generate_interface_mappings(config, routers, links): the mappings, or the
\* exception raised
generate_interface_mappings(cfg, rs, links_arg) ==
    MappingsForLinks(cfg, rs, LinksOrGenerated(cfg, links_arg), get_topology_dimensions(cfg))

\* the order in which the interfaces are listed when a mapping is inverted
InterfaceOrder == <<"eth1", "eth2", "eth3", "eth4">>

\* addr_to_interface[name].get(addr): the interface that holds addr, or None
InterfaceOfAddr(im, name, addr) ==
    IF name \notin DOMAIN im THEN NoValue
    ELSE LET holders == SelectSeq(InterfaceOrder,
                 LAMBDA x : x \in DOMAIN im[name] /\ im[name][x] = addr)
         IN  IF Len(holders) = 0 THEN NoValue ELSE [intf |-> holders[Len(holders)]]

\* "if intf1 and intf2": both ends of the link have an interface in im
BothEndsMapped(l, im) ==
    /\ InterfaceOfAddr(im, l.router1_name, l.router1_addr) # NoValue
    /\ InterfaceOfAddr(im, l.router2_name, l.router2_addr) # NoValue

\* "clab_links.append((router1_name, intf1, router2_name, intf2))" for each
\* of the links ws
ClabTuples(ws, im) ==
    [k \in 1..Len(ws) |->
        << ws[k].router1_name,
           InterfaceOfAddr(im, ws[k].router1_name, ws[k].router1_addr).intf,
           ws[k].router2_name,
           InterfaceOfAddr(im, ws[k].router2_name, ws[k].router2_addr).intf >>]

\* convert_links_to_clab_format, the loop "for link in links"
ClabLinks(ls, im) == ClabTuples(SelectSeq(ls, LAMBDA l : BothEndsMapped(l, im)), im)

\* convert_links_to_clab_format from line 374 on: im is the outcome of the
\* mappings step
ClabWithMappings(ls, im) ==
    IF IsErr(im) THEN im ELSE Ok(ClabLinks(ls, im.ok))

\* convert_links_to_clab_format from line 368 on: ls is the outcome of the
\* links step
ClabForLinks(cfg, rs, ls, mappings_arg) ==
    IF IsErr(ls) THEN ls
    ELSE ClabWithMappings(ls.ok,
             IF mappings_arg = NoValue
             THEN generate_interface_mappings(cfg, rs, Given(ls.ok))
             ELSE Ok(mappings_arg.value))

\* convert_links_to_clab_format(config, routers, links, interface_mappings):
\* the list of (router1, intf1, router2, intf2), or the exception raised
convert_links_to_clab_format(cfg, rs, links_arg, mappings_arg) ==
    ClabForLinks(cfg, rs, LinksOrGenerated(cfg, links_arg), mappings_arg)

(***************************************************************************)
(* Specification LinkSpec: one call of generate_link_ipv6 on two distinct  *)
(* coordinates of a col_count x col_count grid.                            *)
(***************************************************************************)
LinkCoords(cols) ==
    { c \in GridCoords(cols) : c.col <= MaxLinkCol }

LinkInit ==
    /\ col_count \in MinSize..MaxColCount
    /\ coord1 \in LinkCoords(col_count)
    /\ coord2 \in LinkCoords(col_count) \ {coord1}
    /\ link = NoValue
    /\ pc = "call"
    /\ config = NoValue /\ routers = NoValue /\ links = NoValue
    /\ mappings = NoValue /\ clab = NoValue
    /\ qcoord = NoValue /\ nbrs = NoValue
    /\ call_args = NoValue /\ result = NoValue
    /\ steps = NoValue

GenerateLinkIpv6 ==
    /\ pc = "call"
    /\ link' = generate_link_ipv6(col_count, coord1, coord2)
    /\ pc' = "done"
    /\ UNCHANGED <<col_count, coord1, coord2, runVars, nbrVars, callVars, steps>>

LinkNext == GenerateLinkIpv6

LinkSpec == LinkInit /\ [][LinkNext]_vars

(***************************************************************************)
(* Properties of generate_link_ipv6 (LinkSpec)                             *)
(***************************************************************************)
(* Configurations                                                          *)
(***************************************************************************)
\* SpecialTopologyConfig.create_dm6_6_sample(base_topology, include_base_connections)
Dm66Sample(base_topology, include_base_connections) ==
    [ source_node |-> Coord(1, 4),
      dest_node |-> Coord(4, 1),
      gateway_nodes |->
          { Coord(0, 1), Coord(0, 4), Coord(1, 0), Coord(1, 2),
            Coord(1, 3), Coord(1, 5), Coord(2, 1), Coord(2, 4),
            Coord(3, 1), Coord(3, 4), Coord(4, 0), Coord(4, 2),
            Coord(4, 3), Coord(4, 5), Coord(5, 1), Coord(5, 4) },
      internal_bridge_edges |->
          << <<Coord(1, 2), Coord(1, 3)>>, <<Coord(4, 2), Coord(4, 3)>>,
             <<Coord(2, 1), Coord(3, 1)>>, <<Coord(2, 4), Coord(3, 4)>> >>,
      torus_bridge_edges |->
          << <<Coord(0, 1), Coord(5, 1)>>, <<Coord(0, 4), Coord(5, 4)>>,
             <<Coord(1, 0), Coord(1, 5)>>, <<Coord(4, 0), Coord(4, 5)>> >>,
      base_topology |-> base_topology,
      include_base_connections |-> include_base_connections ]

\* topology/special.py create_dm6_6_sample()
create_dm6_6_sample == Dm66Sample("grid", TRUE)

\* the bridge edges the small special configurations are built from
BridgeEdgePool ==
    { <<Coord(0, 0), Coord(0, 1)>>, <<Coord(1, 1), Coord(0, 0)>>,
      <<Coord(0, 1), Coord(1, 1)>> }

SeqsUpTo(S, n) == UNION { [1..k -> S] : k \in 0..n }

\* small special configurations with at most maxInternal internal and
\* maxTorus torus bridge edges
SmallSpecialConfigs(maxInternal, maxTorus) ==
    { [ source_node |-> Coord(0, 0),
        dest_node |-> Coord(1, 1),
        gateway_nodes |-> {Coord(0, 1)},
        internal_bridge_edges |-> ie,
        torus_bridge_edges |-> te,
        base_topology |-> bt,
        include_base_connections |-> ib ] :
      ie \in SeqsUpTo(BridgeEdgePool, maxInternal),
      te \in SeqsUpTo(BridgeEdgePool, maxTorus),
      bt \in {"grid", "torus"},
      ib \in BOOLEAN }

\* TopologyConfig(size=..., topology_type=..., special_config=...): the
\* other fields the model reads keep their defaults (multi_area False,
\* area_size None, bgp_config None)
TopologyConfig(topology_type, size, special_config) ==
    [topology_type |-> topology_type, size |-> size, special_config |-> special_config,
     multi_area |-> FALSE, area_size |-> NoValue, bgp_config |-> NoValue]

StandardTypes == {"grid", "torus", "strip"}

\* the configurations with sizes up to maxSize: the standard types, the
\* small special configurations and, from 6 x 6 on, the dm6_6 samples
Configs(maxSize, maxInternal, maxTorus) ==
    { TopologyConfig(t, n, NoValue) : t \in StandardTypes, n \in MinSize..maxSize }
    \cup { TopologyConfig("special", n, sc) :
             n \in MinSize..maxSize, sc \in SmallSpecialConfigs(maxInternal, maxTorus) }
    \cup { TopologyConfig("special", n, Dm66Sample(bt, ib)) :
             n \in 6..maxSize, bt \in {"grid", "torus"}, ib \in BOOLEAN }

(***************************************************************************)
(* Specification Spec: the calls of a run over one configuration: the       *)
(* router list (generate_topology, step 1), generate_all_links(config),    *)
(* generate_interface_mappings(config, routers) (step 5) and               *)
(* convert_links_to_clab_format(config, routers) (step 7).  A call that    *)
(* raises has the exception as its outcome.                                *)
(***************************************************************************)
\* the groups "2001:db8:1000:" stands for
LoopbackPrefixGroups == << 8193, 3512, 4096 >>

\* a field that keeps only the low six bits of the value
LoopbackFieldLowBits(v) == << v % 64 >>

\* f"{v:x}" if v <= 0xFFFF else f"{v >> 16:x}:{v & 0xFFFF:04x}", as the list
\* of groups the text denotes
LoopbackField(v) ==
    IF v <= 65535 THEN << v >> ELSE << v \div 65536, v % 65536 >>

\* links.generate_loopback_ipv6: the text
\* "2001:db8:1000:{area_hex}:{row_hex}:{col_hex}::1", as the groups before
\* and after its "::"
generate_loopback_ipv6(area_id, coord) ==
    [ head |-> LoopbackPrefixGroups \o LoopbackField(area_id)
                   \o LoopbackField(coord.row) \o LoopbackField(coord.col),
      tail |-> << 1 >> ]

\* the IPv6Address a text  <head>::<tail>  is validated to (the field
\* RouterInfo.loopback_ipv6): "::" stands for at least one zero group
IPv6AddressOf(text) ==
    IF Len(text.head) + Len(text.tail) > 7
    THEN Err("ValidationError")
    ELSE Ok([groups |-> text.head
                          \o [i \in 1..(8 - Len(text.head) - Len(text.tail)) |-> 0]
                          \o text.tail,
             plen |-> 128])

\* TopologyEngine._calculate_area_id: the four numbers of the dotted text
calculate_area_id(coord, cfg) ==
    IF cfg.multi_area /\ cfg.area_size # NoValue
    THEN << coord.row \div cfg.area_size.value, coord.col \div cfg.area_size.value, 0, 0 >>
    ELSE << 0, 0, 0, 0 >>

\* TopologyEngine._get_special_node_type
get_special_node_type(coord, sc) ==
    IF coord = sc.source_node THEN "source"
    ELSE IF coord = sc.dest_node THEN "destination"
    ELSE IF coord \in sc.gateway_nodes THEN "gateway"
    ELSE "internal"

\* TopologyEngine._get_grid_node_type
get_grid_node_type(coord, size) ==
    IF << coord.row, coord.col >> \in { <<0, 0>>, <<0, size - 1>>, <<size - 1, 0>>,
                                         <<size - 1, size - 1>> }
    THEN "corner"
    ELSE IF coord.row = 0 \/ coord.row = size - 1 \/ coord.col = 0 \/ coord.col = size - 1
         THEN "edge"
         ELSE "internal"

\* TopologyEngine._get_strip_node_type
get_strip_node_type(coord, size) ==
    IF coord.col = 0 \/ coord.col = size - 1 THEN "edge" ELSE "internal"

\* TopologyEngine._get_node_type
get_node_type(coord, cfg) ==
    IF cfg.topology_type = "grid" THEN get_grid_node_type(coord, cfg.size)
    ELSE IF cfg.topology_type = "strip" THEN get_strip_node_type(coord, cfg.size)
    ELSE IF cfg.topology_type = "torus" THEN "internal"
    ELSE IF cfg.topology_type = "special" /\ cfg.special_config # NoValue
         THEN get_special_node_type(coord, cfg.special_config)
         ELSE "internal"

\* the coordinate a key of an engine neighbor dict is bound to; the wrapping
\* keys are computed modulo size
EngineNeighborAt(coord, d, size, wrap_rows, wrap_cols) ==
    CASE d = "north" -> Coord(IF wrap_rows THEN (coord.row - 1 + size) % size
                                           ELSE coord.row - 1, coord.col)
      [] d = "south" -> Coord(IF wrap_rows THEN (coord.row + 1) % size
                                           ELSE coord.row + 1, coord.col)
      [] d = "west" -> Coord(coord.row, IF wrap_cols THEN (coord.col - 1 + size) % size
                                                     ELSE coord.col - 1)
      [] d = "east" -> Coord(coord.row, IF wrap_cols THEN (coord.col + 1) % size
                                                     ELSE coord.col + 1)

\* TopologyEngine._get_grid_neighbors
engine_get_grid_neighbors(coord, size) ==
    [d \in (IF coord.row > 0 THEN {"north"} ELSE {})
           \cup (IF coord.row < size - 1 THEN {"south"} ELSE {})
           \cup (IF coord.col > 0 THEN {"west"} ELSE {})
           \cup (IF coord.col < size - 1 THEN {"east"} ELSE {})
        |-> EngineNeighborAt(coord, d, size, FALSE, FALSE)]

\* TopologyEngine._get_torus_neighbors
engine_get_torus_neighbors(coord, size) ==
    [d \in {"north", "south", "west", "east"} |-> EngineNeighborAt(coord, d, size, TRUE, TRUE)]

\* TopologyEngine._get_strip_neighbors
engine_get_strip_neighbors(coord, size) ==
    [d \in {"north", "south"}
           \cup (IF coord.col > 0 THEN {"west"} ELSE {})
           \cup (IF coord.col < size - 1 THEN {"east"} ELSE {})
        |-> EngineNeighborAt(coord, d, size, TRUE, FALSE)]

\* TopologyEngine._get_neighbors: empty for SPECIAL
get_neighbors(coord, cfg) ==
    IF cfg.topology_type = "grid" THEN engine_get_grid_neighbors(coord, cfg.size)
    ELSE IF cfg.topology_type = "strip" THEN engine_get_strip_neighbors(coord, cfg.size)
    ELSE IF cfg.topology_type = "torus" THEN engine_get_torus_neighbors(coord, cfg.size)
    ELSE EmptyMap

\* a regional AS rule that numbers the regions from base_as (base_as + 0..3)
get_special_as_number_from_base(coord, base_as) ==
    base_as + 2 * (IF coord.row <= 2 THEN 0 ELSE 1) + (IF coord.col <= 2 THEN 0 ELSE 1)

\* TopologyEngine._get_special_as_number
get_special_as_number(coord, base_as) ==
    IF 0 <= coord.row /\ coord.row <= 2 /\ 0 <= coord.col /\ coord.col <= 2
    THEN base_as + 1
    ELSE IF 0 <= coord.row /\ coord.row <= 2 /\ 3 <= coord.col /\ coord.col <= 5
    THEN base_as + 2
    ELSE IF 3 <= coord.row /\ coord.row <= 5 /\ 0 <= coord.col /\ coord.col <= 2
    THEN base_as + 3
    ELSE IF 3 <= coord.row /\ coord.row <= 5 /\ 3 <= coord.col /\ coord.col <= 5
    THEN base_as + 4
    ELSE base_as

\* TopologyEngine._calculate_as_number
calculate_as_number(coord, cfg) ==
    IF cfg.topology_type = "special" /\ cfg.special_config # NoValue
    THEN get_special_as_number(coord, cfg.bgp_config.as_number)
    ELSE cfg.bgp_config.as_number

\* TopologyEngine._create_router_info: the RouterInfo of a coordinate
\* (as_number is None unless BGP is enabled; interfaces start empty)
create_router_info(coord, cfg) ==
    [ name |-> RouterNameOf(coord),
      coordinate |-> coord,
      node_type |-> get_node_type(coord, cfg),
      router_id |-> << 10, coord.row, coord.col, 1 >>,
      loopback_ipv6 |->
          IPv6AddressOf(generate_loopback_ipv6(calculate_area_id(coord, cfg)[1], coord)).ok,
      interfaces |-> EmptyMap,
      neighbors |-> get_neighbors(coord, cfg),
      area_id |-> calculate_area_id(coord, cfg),
      as_number |-> IF cfg.bgp_config # NoValue
                    THEN calculate_as_number(coord, cfg)
                    ELSE NoValue ]

\* TopologyEngine._generate_routers: one RouterInfo per coordinate, row by row
generate_routers(cfg) ==
    LET coords == RowMajor(cfg.size, cfg.size)
    IN  [i \in 1..Len(coords) |-> create_router_info(coords[i], cfg)]

\* the endpoints of a list of edges
EdgeNodes(edges) == UNION { {edges[i][1], edges[i][2]} : i \in 1..Len(edges) }

\* topology/special.py get_special_connected_nodes
get_special_connected_nodes(sc) ==
    {sc.source_node, sc.dest_node}
    \cup sc.gateway_nodes
    \cup (IF sc.include_base_connections THEN GridCoords(6) ELSE {})
    \cup EdgeNodes(sc.internal_bridge_edges \o sc.torus_bridge_edges)

\* topology/special.py filter_routers_for_special_topology
filter_routers_for_special_topology(rs, sc) ==
    SelectSeq(rs, LAMBDA r : r.coordinate \in get_special_connected_nodes(sc))

Init ==
    /\ config \in Configs(MaxSize, MaxRunBridges, MaxRunBridges)
    /\ pc = "start"
    /\ routers = NoValue /\ links = NoValue /\ mappings = NoValue /\ clab = NoValue
    /\ col_count = NoValue /\ coord1 = NoValue /\ coord2 = NoValue /\ link = NoValue
    /\ qcoord = NoValue /\ nbrs = NoValue
    /\ call_args = NoValue /\ result = NoValue
    /\ steps = NoValue

GenerateRouters ==
    /\ pc = "start"
    /\ routers' = IF config.topology_type = "special" /\ config.special_config # NoValue
                  THEN filter_routers_for_special_topology(generate_routers(config),
                                                           config.special_config)
                  ELSE generate_routers(config)
    /\ pc' = "routers"
    /\ UNCHANGED <<config, links, mappings, clab, linkVars, nbrVars, callVars, steps>>

GenerateAllLinks ==
    /\ pc = "routers"
    /\ links' = generate_all_links(config)
    /\ pc' = "links"
    /\ UNCHANGED <<config, routers, mappings, clab, linkVars, nbrVars, callVars, steps>>

GenerateInterfaceMappings ==
    /\ pc = "links"
    /\ mappings' = generate_interface_mappings(config, routers, NoValue)
    /\ pc' = "mappings"
    /\ UNCHANGED <<config, routers, links, clab, linkVars, nbrVars, callVars, steps>>

ConvertLinksToClabFormat ==
    /\ pc = "mappings"
    /\ clab' = convert_links_to_clab_format(config, routers, NoValue, NoValue)
    /\ pc' = "converted"
    /\ UNCHANGED <<config, routers, links, mappings, linkVars, nbrVars, callVars, steps>>

Next ==
    \/ GenerateRouters
    \/ GenerateAllLinks
    \/ GenerateInterfaceMappings
    \/ ConvertLinksToClabFormat

Spec == Init /\ [][Next]_vars

(***************************************************************************)
(* Specification BuildSpec: a TopologyConfig is constructed from keyword   *)
(* arguments (pydantic validates them) and, when the construction          *)
(* succeeds, generate_topology builds and filters the router list          *)
(* (engine.py, step 1).                                                    *)
(***************************************************************************)
MaxBuildSize == 7

\* the default of --bgp-as
DefaultBgpAs == 65000

\* a construction that checks the field constraints and the area size only
ValidateTopologyConfigFieldsOnly(fields) ==
    IF \/ fields.size < MinSize
       \/ fields.size > 100
       \/ (fields.area_size # NoValue /\ fields.area_size.value < 2)
       \/ (fields.area_size # NoValue /\ fields.area_size.value > fields.size)
    THEN Err("ValidationError")
    ELSE Ok(fields)

\* TopologyConfig(**fields): the field constraints (size ge=2 le=100,
\* area_size ge=2), validate_area_size and validate_special_config; every
\* failure is reported as a pydantic ValidationError
ValidateTopologyConfig(fields) ==
    IF \/ fields.size < MinSize
       \/ fields.size > 100
       \/ (fields.area_size # NoValue /\ fields.area_size.value < 2)
       \/ (fields.area_size # NoValue /\ fields.area_size.value > fields.size)
       \/ (fields.topology_type = "special" /\ fields.special_config = NoValue)
    THEN Err("ValidationError")
    ELSE Ok(fields)

\* topology/special.py validate_special_topology: the source, the
\* destination and the bridge edge endpoints lie in the grid (no caller in
\* the package)
validate_special_topology(sc, size) ==
    /\ sc.source_node \in GridCoords(size)
    /\ sc.dest_node \in GridCoords(size)
    /\ EdgeNodes(sc.internal_bridge_edges \o sc.torus_bridge_edges) \subseteq GridCoords(size)

\* special configurations of a size x size grid with one node outside the
\* grid: the source, the destination, a gateway or a bridge edge endpoint
MisplacedSpecialConfigs(size) ==
    { [ source_node |-> src,
        dest_node |-> dst,
        gateway_nodes |-> {gw},
        internal_bridge_edges |-> << <<Coord(0, 0), ep>> >>,
        torus_bridge_edges |-> << >>,
        base_topology |-> "grid",
        include_base_connections |-> ib ] :
      src \in {Coord(0, 0), Coord(size, 0)},
      dst \in {Coord(1, 1), Coord(0, size)},
      gw \in {Coord(0, 1), Coord(size, size)},
      ep \in {Coord(1, 0), Coord(size + 1, 1)},
      ib \in BOOLEAN } \ SmallSpecialConfigs(MaxRunBridges, MaxRunBridges)

\* the keyword arguments of the constructions of BuildSpec
BuildArgs ==
    { [ size |-> n, topology_type |-> tsc[1], special_config |-> tsc[2],
        multi_area |-> area[1], area_size |-> area[2], bgp_config |-> bgp ] :
      n \in (MinSize - 1)..MaxBuildSize,
      tsc \in ((StandardTypes \cup {"special"}) \X {NoValue})
              \cup ({"special"} \X ( SmallSpecialConfigs(MaxRunBridges, MaxRunBridges)
                                     \cup { Dm66Sample(bt, ib) :
                                              bt \in {"grid", "torus"}, ib \in BOOLEAN } )),
      area \in { <<FALSE, NoValue>>, <<TRUE, Given(2)>>, <<TRUE, Given(3)>> },
      bgp \in { NoValue, [as_number |-> DefaultBgpAs], [as_number |-> DefaultBgpAs + 100] } }
    \cup
    { [ size |-> n, topology_type |-> "special", special_config |-> sc,
        multi_area |-> FALSE, area_size |-> NoValue, bgp_config |-> NoValue ] :
      n \in MinSize..MaxBuildSize, sc \in UNION { MisplacedSpecialConfigs(k) : k \in MinSize..MaxBuildSize } }

BuildInit ==
    /\ call_args \in BuildArgs
    /\ result = NoValue
    /\ steps = NoValue
    /\ config = NoValue
    /\ pc = "new"
    /\ routers = NoValue /\ links = NoValue /\ mappings = NoValue /\ clab = NoValue
    /\ col_count = NoValue /\ coord1 = NoValue /\ coord2 = NoValue /\ link = NoValue
    /\ qcoord = NoValue /\ nbrs = NoValue

ConstructConfig ==
    /\ pc = "new"
    /\ result' = ValidateTopologyConfig(call_args)
    /\ config' = IF IsOk(result') THEN result'.ok ELSE NoValue
    /\ pc' = IF IsOk(result') THEN "start" ELSE "rejected"
    /\ UNCHANGED <<call_args, routers, links, mappings, clab, linkVars, nbrVars, steps>>

BuildNext ==
    \/ ConstructConfig
    \/ GenerateRouters

BuildSpec == BuildInit /\ [][BuildNext]_vars

(***************************************************************************)
(* Specification DirSpec: one call of calculate_direction, of links.py     *)
(* (rows = size, cols left to default to rows) or of utils/direction.py,   *)
(* on two distinct coordinates of a size x size grid.                      *)
(***************************************************************************)
MaxDirSize == 6

DirInit ==
    /\ call_args \in { [ fn |-> f, from_coord |-> a, to_coord |-> b, size |-> n ] :
                          f \in {"links", "utils"},
                          n \in MinSize..MaxDirSize,
                          a \in GridCoords(MaxDirSize), b \in GridCoords(MaxDirSize) }
    /\ call_args.from_coord \in GridCoords(call_args.size)
    /\ call_args.to_coord \in GridCoords(call_args.size) \ {call_args.from_coord}
    /\ result = NoValue
    /\ steps = NoValue
    /\ pc = "call"
    /\ config = NoValue /\ routers = NoValue /\ links = NoValue
    /\ mappings = NoValue /\ clab = NoValue
    /\ col_count = NoValue /\ coord1 = NoValue /\ coord2 = NoValue /\ link = NoValue
    /\ qcoord = NoValue /\ nbrs = NoValue

CalculateDirection ==
    /\ pc = "call"
    /\ call_args.fn \in {"links", "utils"}
    /\ result' = IF call_args.fn = "links"
                  THEN calculate_direction(call_args.from_coord, call_args.to_coord,
                                           call_args.size, call_args.size)
                  ELSE direction_calculate_direction(call_args.from_coord,
                                                     call_args.to_coord, call_args.size)
    /\ pc' = "done"
    /\ UNCHANGED <<call_args, runVars, linkVars, nbrVars, steps>>

DirNext == CalculateDirection

DirSpec == DirInit /\ [][DirNext]_vars

(***************************************************************************)
(* Specification LoopbackSpec: one call of generate_loopback_ipv6(area_id, *)
(* coord).  A Coordinate holds a row and a col of 0..99.                   *)
(***************************************************************************)
MaxLoopbackField == 100

\* the upper bound of Coordinate.row and Coordinate.col
MaxCoordinate == 99

LoopbackInit ==
    /\ \E a \in 0..MaxLoopbackField :
         \E r \in 0..Min(MaxLoopbackField, MaxCoordinate) :
           \E c \in 0..Min(MaxLoopbackField, MaxCoordinate) :
             call_args = [ area_id |-> a, coord |-> Coord(r, c) ]
    /\ result = NoValue
    /\ steps = NoValue
    /\ pc = "loopback"
    /\ config = NoValue /\ routers = NoValue /\ links = NoValue
    /\ mappings = NoValue /\ clab = NoValue
    /\ col_count = NoValue /\ coord1 = NoValue /\ coord2 = NoValue /\ link = NoValue
    /\ qcoord = NoValue /\ nbrs = NoValue

GenerateLoopbackIpv6 ==
    /\ pc = "loopback"
    /\ result' = generate_loopback_ipv6(call_args.area_id, call_args.coord)
    /\ pc' = "done"
    /\ UNCHANGED <<call_args, runVars, linkVars, nbrVars, steps>>

LoopbackNext == GenerateLoopbackIpv6

LoopbackSpec == LoopbackInit /\ [][LoopbackNext]_vars

(***************************************************************************)
(* Specification TurnSpec: a chain of calls of Direction.opposite,         *)
(* rotate_clockwise and rotate_counterclockwise, each applied to the       *)
(* Direction the previous call returned.  call_args records the calls made *)
(* (ops) and the Directions met (trail, the start first); result is the    *)
(* Direction the last call returned.                                       *)
(***************************************************************************)
MaxTurns == 3

TurnInit ==
    /\ result \in Direction
    /\ steps = NoValue
    /\ call_args = [ops |-> << >>, trail |-> << result >>]
    /\ pc = "turn"
    /\ config = NoValue /\ routers = NoValue /\ links = NoValue
    /\ mappings = NoValue /\ clab = NoValue
    /\ col_count = NoValue /\ coord1 = NoValue /\ coord2 = NoValue /\ link = NoValue
    /\ qcoord = NoValue /\ nbrs = NoValue

\* the bookkeeping of one call: the op and the Direction it returned
Turned(op, d) ==
    /\ result' = d
    /\ call_args' = [ops |-> Append(call_args.ops, op), trail |-> Append(call_args.trail, d)]
    /\ UNCHANGED <<pc, runVars, linkVars, nbrVars, steps>>

Opposite ==
    /\ pc = "turn"
    /\ Len(call_args.ops) < MaxTurns
    /\ Turned("opposite", opposite(result))

RotateClockwise ==
    /\ pc = "turn"
    /\ Len(call_args.ops) < MaxTurns
    /\ Turned("rotate_clockwise", rotate_clockwise(result))

RotateCounterclockwise ==
    /\ pc = "turn"
    /\ Len(call_args.ops) < MaxTurns
    /\ Turned("rotate_counterclockwise", rotate_counterclockwise(result))

TurnNext ==
    \/ Opposite
    \/ RotateClockwise
    \/ RotateCounterclockwise

TurnSpec == TurnInit /\ [][TurnNext]_vars

(***************************************************************************)
(* Specification NbrSpec: the neighbor function of a configuration,        *)
(* obtained from TopologyStrategy.get_neighbors_func(topology_type, size,  *)
(* special_config), applied to one coordinate of the grid.                 *)
(***************************************************************************)
NbrInit ==
    /\ config \in Configs(MaxNbrSize, MaxInternalEdges, MaxTorusEdges)
    /\ qcoord \in GridCoords(config.size)
    /\ nbrs = NoValue
    /\ pc = "query"
    /\ routers = NoValue /\ links = NoValue /\ mappings = NoValue /\ clab = NoValue
    /\ col_count = NoValue /\ coord1 = NoValue /\ coord2 = NoValue /\ link = NoValue
    /\ call_args = NoValue /\ result = NoValue
    /\ steps = NoValue

GetNeighbors ==
    /\ pc = "query"
    /\ nbrs' = LET nf == StrategyGetNeighborsFunc(
                             <<config.topology_type, config.size, config.special_config>>)
               IN  IF IsErr(nf) THEN nf ELSE Ok(NeighborsOf(nf.ok, qcoord))
    /\ pc' = "answered"
    /\ UNCHANGED <<qcoord, runVars, linkVars, callVars, steps>>

NbrNext == GetNeighbors

NbrSpec == NbrInit /\ [][NbrNext]_vars

(***************************************************************************)
\* an address lies inside a /126 network: the upper 126 bits agree
InNetwork126(addr, net) ==
    /\ \A i \in 1..7 : addr.groups[i] = net.groups[i]
    /\ addr.groups[8] \div 4 = net.groups[8] \div 4

\* C1: two distinct unordered pairs of distinct in-grid coordinates never get
\* the same /126 network: the network returned for (coord1, coord2) differs
\* from the network of every other pair of the same grid.
C1_NetworksCollisionFree ==
    pc = "done" =>
        \A c \in LinkCoords(col_count) : \A d \in LinkCoords(col_count) :
            (NodeId(col_count, c) < NodeId(col_count, d) /\ {c, d} # {coord1, coord2}) =>
                generate_link_ipv6(col_count, c, d).network # link.network

\* C2: generate_link_ipv6(cols, A, B) = generate_link_ipv6(cols, B, A), field
\* for field (network, both addresses, both names).
C2_LinkSymmetric ==
    pc = "done" =>
        LET other == generate_link_ipv6(col_count, coord2, coord1)
        IN  /\ other.network = link.network
            /\ other.router1_addr = link.router1_addr
            /\ other.router2_addr = link.router2_addr
            /\ other.router1_name = link.router1_name
            /\ other.router2_name = link.router2_name

\* C2 witness: a call whose arguments arrive in descending id order (the swap
\* is taken) and whose network needs the two-segment suffix.
C2_Witness ==
    /\ pc = "done"
    /\ NodeId(col_count, coord1) > NodeId(col_count, coord2)
    /\ link.network.groups[5] # 0

\* C3: endpoint 1 is the coordinate with the smaller row*cols+col and holds
\* network+1, endpoint 2 the one with the larger id and holds network+3; the
\* two addresses differ and both lie inside the returned /126 network.
C3_EndpointOrderAndHosts ==
    pc = "done" =>
        LET lo == IF coord1.row * col_count + coord1.col
                      < coord2.row * col_count + coord2.col THEN coord1 ELSE coord2
            hi == IF lo = coord1 THEN coord2 ELSE coord1
            net == link.network
        IN  /\ link.router1_name = RouterNameOf(lo)
            /\ link.router2_name = RouterNameOf(hi)
            /\ net.plen = 126
            /\ net.groups[8] % 4 = 0
            /\ \A i \in 1..7 : /\ link.router1_addr.groups[i] = net.groups[i]
                                /\ link.router2_addr.groups[i] = net.groups[i]
            /\ link.router1_addr.groups[8] = net.groups[8] + 1
            /\ link.router2_addr.groups[8] = net.groups[8] + 3
            /\ link.router1_addr # link.router2_addr
            /\ InNetwork126(link.router1_addr, net)
            /\ InNetwork126(link.router2_addr, net)

\* C3 witness: a finished call whose first argument is the larger id, so the
\* ordering of the endpoints is not that of the arguments.
C3_Witness ==
    /\ pc = "done"
    /\ coord1.row > coord2.row
    /\ link.router1_name = RouterNameOf(coord2)
    /\ link.router1_addr.groups[8] = 1


(***************************************************************************)
(* Properties of the link list (Spec)                                      *)
(***************************************************************************)
\* the call of generate_all_links has been made
LinksCalled == pc \in {"links", "mappings", "converted"}

\* the networks of a list of links
NetworksOf(ls) == { ls[i].network : i \in 1..Len(ls) }

\* C4: for a 6 x 6 TORUS, generate_all_links yields 60 links, and the 60
\* links have 60 pairwise distinct networks.
C4_Torus6SixtyDistinctLinks ==
    (LinksCalled /\ config.topology_type = "torus" /\ config.size = 6)
        => /\ IsOk(links)
           /\ Len(links.ok) = 60
           /\ Cardinality(NetworksOf(links.ok)) = 60

\* C5: for every GRID of size n, the number of links generate_all_links
\* builds equals 2*n*(n-1), the value of calculate_total_links and of
\* TopologyConfig.total_links (each coordinate having 2, 3 or 4 neighbors as
\* it is a corner, an edge or an internal node).
C5_GridLinkCount ==
    (LinksCalled /\ config.topology_type = "grid")
        => /\ IsOk(links)
           /\ Len(links.ok) = GridTotalLinks(config.size)
           /\ Len(links.ok) = total_links(config)
           /\ \A c \in GridCoords(config.size) :
                Cardinality(DOMAIN GridNeighbors(c, config.size)) =
                    CASE classify_grid_node(c, config.size) = "corner" -> 2
                      [] classify_grid_node(c, config.size) = "edge" -> 3
                      [] classify_grid_node(c, config.size) = "internal" -> 4

\* C6: for every TORUS of size N, every coordinate has exactly 4 neighbors
\* (one per Direction, wrapping modulo N), every node is INTERNAL, and the
\* number of links generate_all_links builds equals 2*N*N.
C6_TorusLinkCount ==
    (LinksCalled /\ config.topology_type = "torus")
        => /\ \A c \in GridCoords(config.size) :
                /\ DOMAIN TorusNeighbors(c, config.size, config.size) = Direction
                /\ classify_torus_node(c, config.size) = "internal"
           /\ IsOk(links)
           /\ Len(links.ok) = TorusTotalLinks(config.size)

\* the distinct unordered pairs {c, d} with d a strip neighbor of c
StripPairs(size) ==
    { {c, StripNeighbors(c, size)[d]} :
        <<c, d>> \in { x \in GridCoords(size) \X Direction :
                         x[2] \in DOMAIN StripNeighbors(x[1], size) } }

\* C7: for every STRIP of size N, the number of links generate_all_links
\* builds, which is the number of distinct unordered pairs of strip
\* neighbors, equals N*N + N*(N-1), the value of calculate_total_links and
\* of TopologyConfig.total_links.
C7_StripLinkCount ==
    (LinksCalled /\ config.topology_type = "strip")
        => /\ IsOk(links)
           /\ Len(links.ok) = Cardinality(StripPairs(config.size))
           /\ Len(links.ok) = StripTotalLinks(config.size)
           /\ Len(links.ok) = total_links(config)

\* the router names of the two ends of the torus bridge edges of a
\* special configuration, as unordered pairs
TorusBridgeEnds(sc) ==
    { {RouterNameOf(sc.torus_bridge_edges[i][1]), RouterNameOf(sc.torus_bridge_edges[i][2])} :
        i \in 1..Len(sc.torus_bridge_edges) }

\* C8: in a SPECIAL topology the ContainerLab link list that
\* convert_links_to_clab_format produces contains no link whose two ends are
\* the ends of a torus bridge edge.
C8_TorusBridgesNotWired ==
    (/\ pc = "converted"
     /\ config.topology_type = "special"
     /\ Len(config.special_config.torus_bridge_edges) > 0)
        => /\ IsOk(clab)
           /\ \A i \in 1..Len(clab.ok) :
                {clab.ok[i][1], clab.ok[i][3]} \notin TorusBridgeEnds(config.special_config)

(***************************************************************************)
(* Properties of the neighbor function (NbrSpec)                           *)
(***************************************************************************)
\* the neighbor dict of the base topology of a special configuration
BaseNeighbors(coord, size, sc) ==
    IF sc.include_base_connections
    THEN IF sc.base_topology = "torus"
         THEN TorusNeighbors(coord, size, size)
         ELSE get_filtered_grid_neighbors(coord, size)
    ELSE EmptyMap

\* the other ends of the bridge edges that contain coord, internal edges
\* first, then torus edges, in list order
Partners(coord, sc) ==
    LET edges == sc.internal_bridge_edges \o sc.torus_bridge_edges
        mine == SelectSeq(edges, LAMBDA e : e[1] = coord \/ e[2] = coord)
    IN  [i \in 1..Len(mine) |-> IF mine[i][1] = coord THEN mine[i][2] ELSE mine[i][1]]

\* the directions a dict leaves free, in the order NORTH, SOUTH, WEST, EAST
FreeDirections(m) == SelectSeq(DirectionOrder, LAMBDA d : d \notin DOMAIN m)

\* C9: when more neighbor relationships are requested for a node than it
\* has free interface slots, the neighbor builder surfaces an explicit
\* error: no link is silently lost.
C9_ExhaustionSurfaced ==
    (/\ pc = "answered"
     /\ config.topology_type = "special"
     /\ Len(Partners(qcoord, config.special_config))
          > Len(FreeDirections(BaseNeighbors(qcoord, config.size, config.special_config))))
        => IsErr(nbrs)

\* C10: SpecialTopology.get_neighbors binds the k-th bridge edge that
\* contains the queried coordinate (internal edges first, then torus edges,
\* in list order) to the k-th Direction, in the order NORTH, SOUTH, WEST,
\* EAST, that the base dict leaves free; the edges beyond the free
\* directions are dropped, every entry of the base dict is unchanged, and
\* the dict never has more than 4 entries.
C10_BridgeBinding ==
    (pc = "answered" /\ config.topology_type = "special")
        => /\ IsOk(nbrs)
           /\ LET m == nbrs.ok
                  b == BaseNeighbors(qcoord, config.size, config.special_config)
                  partners == Partners(qcoord, config.special_config)
                  free == FreeDirections(b)
                  k == Min(Len(free), Len(partners))
              IN  /\ DOMAIN m = DOMAIN b \cup { free[i] : i \in 1..k }
                  /\ \A d \in DOMAIN b : m[d] = b[d]
                  /\ \A i \in 1..k : m[free[i]] = partners[i]
                  /\ Cardinality(DOMAIN m) <= 4

\* a query in which some bridge edges were bound and a further one was
\* dropped because all four directions were occupied
C10_Witness ==
    /\ pc = "answered"
    /\ config.topology_type = "special"
    /\ IsOk(nbrs)
    /\ LET b == BaseNeighbors(qcoord, config.size, config.special_config)
           partners == Partners(qcoord, config.special_config)
       IN  /\ Len(FreeDirections(b)) > 1
           /\ Len(partners) > Len(FreeDirections(b))
           /\ Cardinality(DOMAIN nbrs.ok) = 4

(***************************************************************************)
(* Properties of the region filter and of router selection                 *)
(***************************************************************************)
\* the quadrant of a coordinate when the grid is cut at half of its size
RegionByHalf(coord, size) ==
    LET half == size \div 2
    IN  2 * (IF coord.row < half THEN 0 ELSE 1) + (IF coord.col < half THEN 0 ELSE 1)

\* C11: for a SPECIAL topology of any supported size, the filtered grid
\* neighbor function keeps the grid edge between adjacent coordinates c and
\* d if and only if c and d lie in the same quadrant, the grid being cut at
\* half of its size; an edge between different quadrants is dropped.
C11_FilterCutsAtHalf ==
    (/\ pc = "answered"
     /\ config.topology_type = "special"
     /\ config.special_config.include_base_connections
     /\ config.special_config.base_topology = "grid"
     /\ Len(config.special_config.internal_bridge_edges) = 0
     /\ Len(config.special_config.torus_bridge_edges) = 0)
        => /\ IsOk(nbrs)
           /\ LET adjacent == GridNeighbors(qcoord, config.size)
              IN  \A d \in DOMAIN adjacent :
                      (d \in DOMAIN nbrs.ok /\ nbrs.ok[d] = adjacent[d])
                          <=> RegionByHalf(qcoord, config.size)
                                  = RegionByHalf(adjacent[d], config.size)

(***************************************************************************)
(* Properties of router generation (BuildSpec)                             *)
(***************************************************************************)
\* the routers of a list that sit at a coordinate
RoutersAt(rs, coord) == { rs[i] : i \in { j \in 1..Len(rs) : rs[j].coordinate = coord } }

\* the run works on the 6 x 6 sample with base connections and BGP enabled
IsSampleRun ==
    /\ config # NoValue
    /\ config.topology_type = "special"
    /\ config.size = 6
    /\ config.special_config \in { Dm66Sample(bt, TRUE) : bt \in {"grid", "torus"} }
    /\ config.bgp_config # NoValue

\* C12: for the 6 x 6 SPECIAL sample (source (1,4), destination (4,1), 16
\* gateways, 4 internal and 4 torus bridge edges, base connections
\* included), router generation followed by the special filter yields
\* exactly 36 routers; the router at (0,0) has AS base_as + 1 and the router
\* at (5,5) has AS base_as + 4.
C12_SampleRoutersAndAs ==
    (pc = "routers" /\ IsSampleRun)
        => /\ Len(routers) = 36
           /\ Cardinality(config.special_config.gateway_nodes) = 16
           /\ Len(config.special_config.internal_bridge_edges) = 4
           /\ Len(config.special_config.torus_bridge_edges) = 4
           /\ config.special_config.source_node = Coord(1, 4)
           /\ config.special_config.dest_node = Coord(4, 1)
           /\ Cardinality(RoutersAt(routers, Coord(0, 0))) = 1
           /\ \A r \in RoutersAt(routers, Coord(0, 0)) :
                  r.as_number = config.bgp_config.as_number + 1
           /\ Cardinality(RoutersAt(routers, Coord(5, 5))) = 1
           /\ \A r \in RoutersAt(routers, Coord(5, 5)) :
                  r.as_number = config.bgp_config.as_number + 4

\* the routers of the grid-based sample have been generated and filtered
C12_Witness ==
    /\ pc = "routers"
    /\ IsSampleRun
    /\ config.special_config = create_dm6_6_sample
    /\ Len(routers) = 36

\* the coordinates of the routers of a list
CoordinatesOf(rs) == { rs[i].coordinate : i \in 1..Len(rs) }

\* C13: for a SPECIAL topology of any supported size, the routers the
\* special filter retains are exactly those whose coordinate is the source,
\* the destination, a gateway node, an endpoint of an internal or torus
\* bridge edge or, when base connections are included, any coordinate of
\* the full size x size grid; every other router is excluded.
C13_RetainedRouters ==
    (pc = "routers" /\ config.topology_type = "special")
        => LET sc == config.special_config
               named == {sc.source_node, sc.dest_node} \cup sc.gateway_nodes
                            \cup EdgeNodes(sc.internal_bridge_edges)
                            \cup EdgeNodes(sc.torus_bridge_edges)
           IN  CoordinatesOf(routers)
                   = { c \in GridCoords(config.size) :
                           c \in named \/ sc.include_base_connections }

\* the construction was given a special configuration with a source, a
\* destination, a gateway or a bridge edge endpoint outside the grid
HasNodeOutsideGrid ==
    /\ call_args # NoValue
    /\ call_args.topology_type = "special"
    /\ call_args.special_config # NoValue
    /\ call_args.size >= MinSize
    /\ \/ ~validate_special_topology(call_args.special_config, call_args.size)
       \/ ~(call_args.special_config.gateway_nodes \subseteq GridCoords(call_args.size))

\* C14: a SPECIAL configuration in which the source, the destination, a
\* gateway node or a bridge edge endpoint lies outside [0,size) x [0,size)
\* is rejected as a configuration error before any router or link is built:
\* no run constructs routers from such a configuration.
C14_OutOfGridRejected ==
    (HasNodeOutsideGrid /\ pc # "new")
        => /\ IsErr(result)
           /\ routers = NoValue

\* the construction was asked for a SPECIAL topology without special_config
LacksSpecialConfig ==
    /\ call_args # NoValue
    /\ call_args.topology_type = "special"
    /\ call_args.special_config = NoValue

\* C15: constructing a TopologyConfig with topology_type SPECIAL and no
\* special_config fails with a validation error, so no generation step runs
\* on a SPECIAL configuration that lacks its parameters.
C15_SpecialNeedsConfig ==
    /\ (LacksSpecialConfig /\ pc # "new")
           => /\ result = Err("ValidationError")
              /\ pc = "rejected"
              /\ config = NoValue
              /\ routers = NoValue
    /\ (config # NoValue /\ config.topology_type = "special")
           => config.special_config # NoValue

\* a construction whose other arguments are valid was rejected for the
\* missing special_config
C15_Witness ==
    /\ pc = "rejected"
    /\ LacksSpecialConfig
    /\ IsOk(ValidateTopologyConfigFieldsOnly(call_args))
    /\ IsErr(result)

(***************************************************************************)
(* Properties of calculate_direction (DirSpec)                             *)
(***************************************************************************)
\* the call of DirSpec has returned
DirectionReturned ==
    /\ pc = "done"
    /\ call_args # NoValue
    /\ "from_coord" \in DOMAIN call_args

RowDelta == call_args.to_coord.row - call_args.from_coord.row
ColDelta == call_args.to_coord.col - call_args.from_coord.col

\* C16: for every grid size and every ordered pair of distinct in-grid
\* coordinates (A, B), calculate_direction(A, B) returns one of NORTH, SOUTH,
\* WEST, EAST and never returns no direction.
C16_AlwaysADirection ==
    DirectionReturned => result \in Direction

\* C17: for every size n >= 3 an exact wraparound pair resolves to the
\* shorter wrap path: (r,0) -> (r,n-1) is WEST and (r,n-1) -> (r,0) is EAST
\* for every row r, (0,c) -> (n-1,c) is NORTH and (n-1,c) -> (0,c) is SOUTH
\* for every column c; the wrap rule takes precedence over the
\* dominant-axis rule.
C17_WrapResolvesToShorterPath ==
    (DirectionReturned /\ call_args.size >= 3)
        => /\ (RowDelta = 0 /\ ColDelta = call_args.size - 1) => result = "west"
           /\ (RowDelta = 0 /\ ColDelta = -(call_args.size - 1)) => result = "east"
           /\ (ColDelta = 0 /\ RowDelta = call_args.size - 1) => result = "north"
           /\ (ColDelta = 0 /\ RowDelta = -(call_args.size - 1)) => result = "south"

\* direction((0,0),(0,5)) has been resolved in a grid of size 6, where the
\* dominant-axis rule alone would answer EAST
C17_Witness ==
    /\ DirectionReturned
    /\ call_args.size = 6
    /\ call_args.from_coord = Coord(0, 0)
    /\ call_args.to_coord = Coord(0, 5)
    /\ result = "west"

\* the pair of the call is Manhattan-adjacent
IsAdjacentPair == Abs(RowDelta) + Abs(ColDelta) = 1

\* the pair of the call is an exact wraparound: the delta is size - 1 along
\* one axis and zero along the other
IsExactWrapPair ==
    \/ (RowDelta = 0 /\ Abs(ColDelta) = call_args.size - 1)
    \/ (ColDelta = 0 /\ Abs(RowDelta) = call_args.size - 1)

\* C18: for a pair that is neither Manhattan-adjacent nor an exact
\* wraparound and in which at least one delta exceeds 1 in absolute value,
\* calculate_direction picks the axis with the larger absolute delta (the
\* row axis on a tie) and the sign of that delta: NORTH if the row delta is
\* negative, SOUTH if positive, WEST if the column delta is negative, EAST if
\* positive.
C18_DominantAxis ==
    (/\ DirectionReturned
     /\ ~IsAdjacentPair
     /\ ~IsExactWrapPair
     /\ (Abs(RowDelta) > 1 \/ Abs(ColDelta) > 1))
        => result = IF Abs(RowDelta) >= Abs(ColDelta)
                    THEN (IF RowDelta < 0 THEN "north" ELSE "south")
                    ELSE (IF ColDelta < 0 THEN "west" ELSE "east")

\* a tie of the two deltas was resolved along the row axis
C18_Witness ==
    /\ DirectionReturned
    /\ call_args.fn = "utils"
    /\ RowDelta = -2 /\ ColDelta = 2
    /\ result = "north"

(***************************************************************************)
(* Properties of generate_loopback_ipv6 (LoopbackSpec)                     *)
(***************************************************************************)
\* C19: generate_loopback_ipv6 is injective on bounded inputs: the address
\* the returned text denotes is 2001:db8:1000:area:row:col:0:1, so the
\* triple (area, row, col) can be read back from it and two distinct
\* triples with components in 0..100 denote different IPv6 addresses.
C19_LoopbackInjective ==
    (pc = "done" /\ "area_id" \in DOMAIN call_args)
        => /\ IsOk(IPv6AddressOf(result))
           /\ IPv6AddressOf(result).ok.groups
                  = LoopbackPrefixGroups
                        \o << call_args.area_id, call_args.coord.row, call_args.coord.col >>
                        \o << 0, 1 >>

\* the loopback address of the largest triple has been generated
C19_Witness ==
    /\ pc = "done"
    /\ "area_id" \in DOMAIN call_args
    /\ call_args.area_id = 100
    /\ call_args.coord = Coord(MaxCoordinate, MaxCoordinate)
    /\ IsOk(IPv6AddressOf(result))

(***************************************************************************)
(* Properties of the Direction methods (TurnSpec)                          *)
(***************************************************************************)
\* the i-th and the (i+1)-th call of the chain were op1 and op2
CalledInTurn(i, op1, op2) ==
    /\ i + 1 <= Len(call_args.ops)
    /\ call_args.ops[i] = op1
    /\ call_args.ops[i + 1] = op2

\* C20: over the four Directions, opposite, rotate_clockwise and
\* rotate_counterclockwise are total and closed; opposite is an involution
\* without fixed points; rotate_clockwise and rotate_counterclockwise are
\* mutually inverse; two clockwise rotations equal opposite; and the unit
\* vector of opposite(d) is the negation of the unit vector of d.
C20_DirectionAlgebra ==
    (pc = "turn")
        => LET ops == call_args.ops
               trail == call_args.trail
           IN  /\ Cardinality(Direction) = 4
               /\ \A i \in 1..Len(trail) : trail[i] \in Direction
               /\ \A i \in 1..Len(ops) :
                      /\ ops[i] = "opposite"
                             => /\ trail[i + 1] # trail[i]
                                /\ DirVector(trail[i + 1]).row = -DirVector(trail[i]).row
                                /\ DirVector(trail[i + 1]).col = -DirVector(trail[i]).col
                      /\ CalledInTurn(i, "opposite", "opposite")
                             => trail[i + 2] = trail[i]
                      /\ CalledInTurn(i, "rotate_clockwise", "rotate_counterclockwise")
                             => trail[i + 2] = trail[i]
                      /\ CalledInTurn(i, "rotate_counterclockwise", "rotate_clockwise")
                             => trail[i + 2] = trail[i]
                      /\ CalledInTurn(i, "rotate_clockwise", "rotate_clockwise")
                             => trail[i + 2] = opposite(trail[i])

\* a chain that turned clockwise, back counterclockwise, and then to the
\* opposite Direction
C20_Witness ==
    /\ pc = "turn"
    /\ call_args.ops = << "rotate_clockwise", "rotate_counterclockwise", "opposite" >>
    /\ call_args.trail[3] = call_args.trail[1]
    /\ result = opposite(call_args.trail[1])

(***************************************************************************)
(* engine.py and filesystem.py: one run of generate_topology.               *)
(* A directory is the record of the parts its name is formatted from       *)
(* ("{protocol_suffix}_{type}{size}x{size}{lsa_only_suffix}"), or          *)
(* [custom |-> name] for an output_dir of the configuration.  The file     *)
(* system is empty when the run starts; call_args holds, for each writing  *)
(* step, whether the file system lets its writes go through.               *)
(***************************************************************************)
\* the sizes of the configurations of EngineSpec
MaxEngineSize == 3

\* filesystem.get_protocol_suffix: the protocol names, joined by "_"
get_protocol_suffix(cfg) ==
    LET protocols == (IF cfg.ospf_config # NoValue THEN <<"ospf6">> ELSE << >>)
                     \o (IF cfg.isis_config # NoValue THEN <<"isis">> ELSE << >>)
    IN  IF Len(protocols) = 0 THEN <<"ospf6">> ELSE protocols

\* TopologyEngine._get_protocol_suffix
engine_get_protocol_suffix(cfg) ==
    LET protocols == (IF cfg.ospf_config # NoValue THEN <<"ospf6">> ELSE << >>)
                     \o (IF cfg.isis_config # NoValue THEN <<"isis">> ELSE << >>)
    IN  IF Len(protocols) = 0 THEN <<"ospf6">> ELSE protocols

\* TopologyEngine._get_output_dir
get_output_dir(cfg) ==
    IF cfg.output_dir # NoValue
    THEN cfg.output_dir.value
    ELSE [ protocol_suffix |-> engine_get_protocol_suffix(cfg),
           topo_type |-> cfg.topology_type,
           size |-> cfg.size,
           lsa_only_suffix |-> "" ]

\* filesystem.create_all_directories: the directory the tree is created under
DirectoriesBaseDir(cfg) ==
    IF cfg.output_dir # NoValue
    THEN cfg.output_dir.value
    ELSE [ protocol_suffix |-> get_protocol_suffix(cfg),
           topo_type |-> cfg.topology_type,
           size |-> cfg.size,
           lsa_only_suffix |-> IF cfg.ospf_config # NoValue /\ cfg.ospf_config.lsa_only_mode
                               THEN "_lsa_only"
                               ELSE "" ]

\* a step of the run as the trace records it; base_dir is NoValue for a
\* step that gets no directory
Step(name, base_dir, outcome) ==
    [step |-> name, base_dir |-> base_dir, outcome |-> outcome]

\* the router tree exists under base_dir: a successful directories step
\* created it there
TreeExists(trace, base_dir) ==
    \E i \in 1..Len(trace) :
        /\ trace[i].step = "directories"
        /\ trace[i].outcome = "success"
        /\ trace[i].base_dir = base_dir

\* the Result of a writer that opens files under base_dir
WriterOutcome(trace, base_dir, writable) ==
    IF writable /\ TreeExists(trace, base_dir) THEN "success" ELSE "failure"

\* GenerationResult(success=..., ...)
GenerationResult(success) == [success |-> success]

\* FileSystemManager._write_router_configs, lines 156-157:
\* router.interfaces.update(interface_mappings[router.name])
UpdateInterfaces(r, im) ==
    IF r.name \in DOMAIN im
    THEN [r EXCEPT !.interfaces = im[r.name] @@ r.interfaces]
    ELSE r

\* write_config_files: the routers after the loop; a write that fails is
\* the first one, after the first router's interfaces were updated
RoutersAfterConfigFiles(rs, im, outcome) ==
    [i \in 1..Len(rs) |->
        IF outcome = "success" \/ i = 1 THEN UpdateInterfaces(rs[i], im) ELSE rs[i]]

\* generate_topology, lines 79-97: convert_links_to_clab_format and
\* generate_clab_yaml, after the config files were written
RunFromClab(cfg, rs, im, env, trace, cl) ==
    IF IsErr(cl)
    THEN [routers |-> rs, mappings |-> im, clab |-> cl,
          steps |-> Append(trace, Step("yaml", NoValue, "raised")),
          result |-> GenerationResult(FALSE)]
    ELSE [routers |-> rs, mappings |-> im, clab |-> cl,
          steps |-> Append(trace, Step("yaml", get_output_dir(cfg),
                                       WriterOutcome(trace, get_output_dir(cfg), env.yaml))),
          result |-> GenerationResult(
                         WriterOutcome(trace, get_output_dir(cfg), env.yaml) = "success")]

\* generate_topology, lines 69-97: generate_all_config_files and what
\* follows it, im being the interface mappings
RunFromConfigFiles(cfg, rs, im, env, trace, outcome) ==
    IF outcome = "failure"
    THEN [routers |-> RoutersAfterConfigFiles(rs, im.ok, outcome),
          mappings |-> im, clab |-> NoValue,
          steps |-> Append(trace, Step("config_files", get_output_dir(cfg), outcome)),
          result |-> GenerationResult(FALSE)]
    ELSE RunFromClab(cfg, RoutersAfterConfigFiles(rs, im.ok, outcome), im, env,
                     Append(trace, Step("config_files", get_output_dir(cfg), outcome)),
                     convert_links_to_clab_format(
                         cfg, RoutersAfterConfigFiles(rs, im.ok, outcome), NoValue, NoValue))

\* a run without the except clause: the exception of the mappings step is
\* what the caller gets
RunFromMappingsUnguarded(cfg, rs, env, trace, im) ==
    IF IsErr(im)
    THEN [routers |-> rs, mappings |-> im, clab |-> NoValue,
          steps |-> Append(trace, Step("mappings", NoValue, "raised")),
          result |-> im]
    ELSE RunFromConfigFiles(cfg, rs, im, env,
                            Append(trace, Step("mappings", NoValue, "success")),
                            WriterOutcome(trace, get_output_dir(cfg), env.config_files))

\* generate_topology, lines 66-104: generate_interface_mappings and what
\* follows it; an exception ends the run in the except clause
RunFromMappings(cfg, rs, env, trace, im) ==
    IF IsErr(im)
    THEN [routers |-> rs, mappings |-> im, clab |-> NoValue,
          steps |-> Append(trace, Step("mappings", NoValue, "raised")),
          result |-> GenerationResult(FALSE)]
    ELSE RunFromConfigFiles(cfg, rs, im, env,
                            Append(trace, Step("mappings", NoValue, "success")),
                            WriterOutcome(trace, get_output_dir(cfg), env.config_files))

\* the output settings of a configuration: output_dir, ospf_config (the
\* default is OSPFConfig()) and isis_config
OutputSettings ==
    [ output_dir : {NoValue, Given([custom |-> "out"])},
      ospf_config : {NoValue, [lsa_only_mode |-> FALSE], [lsa_only_mode |-> TRUE]},
      isis_config : {NoValue, [level |-> "level-2"]} ]

(***************************************************************************)
(* Specification EngineSpec: one run of TopologyEngine.generate_topology   *)
(* over a configuration, step by step.                                     *)
(***************************************************************************)
EngineInit ==
    /\ \E c \in Configs(MaxEngineSize, MaxRunBridges, MaxRunBridges) :
           \E o \in OutputSettings : config = c @@ o
    /\ call_args \in [directories : BOOLEAN, templates : BOOLEAN,
                      config_files : BOOLEAN, yaml : BOOLEAN]
    /\ pc = "start"
    /\ steps = << >>
    /\ result = NoValue
    /\ routers = NoValue /\ links = NoValue /\ mappings = NoValue /\ clab = NoValue
    /\ col_count = NoValue /\ coord1 = NoValue /\ coord2 = NoValue /\ link = NoValue
    /\ qcoord = NoValue /\ nbrs = NoValue

\* lines 49-55: create_all_directories(config, routers, requirements)
CreateAllDirectories ==
    /\ pc = "routers"
    /\ steps' = Append(steps, Step("directories", DirectoriesBaseDir(config),
                                   IF call_args.directories THEN "success" ELSE "failure"))
    /\ result' = IF call_args.directories THEN result ELSE GenerationResult(FALSE)
    /\ pc' = IF call_args.directories THEN "templates" ELSE "returned"
    /\ UNCHANGED <<call_args, runVars, linkVars, nbrVars>>

\* lines 58-63: create_all_template_files(routers, requirements, base_dir, config)
CreateAllTemplateFiles ==
    /\ pc = "templates"
    /\ steps' = Append(steps, Step("templates", get_output_dir(config),
                           WriterOutcome(steps, get_output_dir(config), call_args.templates)))
    /\ result' = IF steps'[Len(steps')].outcome = "success"
                 THEN result
                 ELSE GenerationResult(FALSE)
    /\ pc' = IF steps'[Len(steps')].outcome = "success" THEN "interfaces" ELSE "returned"
    /\ UNCHANGED <<call_args, runVars, linkVars, nbrVars>>

\* lines 66-104: the rest of the run
GenerateAndWrite ==
    /\ pc = "interfaces"
    /\ \E run \in { RunFromMappings(config, routers, call_args, steps,
                                    generate_interface_mappings(config, routers, NoValue)) } :
           /\ routers' = run.routers
           /\ mappings' = run.mappings
           /\ clab' = run.clab
           /\ steps' = run.steps
           /\ result' = run.result
    /\ pc' = "returned"
    /\ UNCHANGED <<call_args, config, links, linkVars, nbrVars>>

EngineNext ==
    \/ GenerateRouters
    \/ CreateAllDirectories
    \/ CreateAllTemplateFiles
    \/ GenerateAndWrite

EngineSpec == EngineInit /\ [][EngineNext]_vars

(***************************************************************************)
(* Properties of the run of generate_topology (EngineSpec).                 *)
(***************************************************************************)
\* the file system lets every writing step go through, and the writers find
\* the router tree under the directory they are given
NoWriterFails ==
    /\ call_args.directories /\ call_args.templates
    /\ call_args.config_files /\ call_args.yaml
    /\ DirectoriesBaseDir(config) = get_output_dir(config)

\* the steps of a given name in a trace
StepsNamed(trace, name) == SelectSeq(trace, LAMBDA s : s.step = name)

\* C21: within one run of generate_topology every router's interface map is
\* empty from the construction of the router until the interface mappings
\* are computed, and a run in which no writer fails has populated every
\* router's interface map, once, with the mappings computed for it by the
\* time it returns.
C21_InterfacesPopulatedOnce ==
    /\ pc \in {"routers", "templates", "interfaces"}
           => \A i \in 1..Len(routers) : routers[i].interfaces = EmptyMap
    /\ (pc = "returned" /\ NoWriterFails)
           => /\ IsOk(mappings)
              /\ Len(StepsNamed(steps, "config_files")) = 1
              /\ \A i \in 1..Len(routers) :
                     routers[i].interfaces = mappings.ok[routers[i].name]

(***************************************************************************)
(* Properties of the interface mappings (Spec).                             *)
(***************************************************************************)
\* generate_interface_mappings has been called
MappingsCalled == pc \in {"mappings", "converted"}

\* the address of the router at coord on its link to the coordinate other
EndpointAddr(cols, coord, other) ==
    IF generate_link_ipv6(cols, coord, other).router1_name = RouterNameOf(coord)
    THEN generate_link_ipv6(cols, coord, other).router1_addr
    ELSE generate_link_ipv6(cols, coord, other).router2_addr

\* C22: for every GRID, TORUS and STRIP topology and every router, the
\* interfaces generate_interface_mappings populates are those of the
\* directions of the router's neighbors, and the address stored for a
\* direction is the router's endpoint address on the link to that neighbor.
C22_SlotsFollowNeighbors ==
    (MappingsCalled /\ config.topology_type \in StandardTypes)
        => /\ IsOk(mappings)
           /\ \A c \in GridCoords(config.size) :
                /\ DOMAIN mappings.ok[RouterNameOf(c)] =
                       { INTERFACE_MAPPING(d) :
                           d \in DOMAIN NeighborsOf(
                                     [kind |-> config.topology_type, size |-> config.size], c) }
                /\ \A d \in DOMAIN NeighborsOf(
                                [kind |-> config.topology_type, size |-> config.size], c) :
                       mappings.ok[RouterNameOf(c)][INTERFACE_MAPPING(d)] =
                           EndpointAddr(config.size, c,
                               NeighborsOf([kind |-> config.topology_type,
                                            size |-> config.size], c)[d])

\* the run is over the 6 x 6 dm6_6 sample with its base connections
IsSampleWithBase ==
    /\ config.topology_type = "special"
    /\ config.size = 6
    /\ \E bt \in {"grid", "torus"} : config.special_config = Dm66Sample(bt, TRUE)

\* the links of ls that end at the router called name
IncidentLinks(ls, name) ==
    SelectSeq(ls, LAMBDA l : l.router1_name = name \/ l.router2_name = name)

\* C23: for the 6 x 6 SPECIAL sample with base connections,
\* generate_interface_mappings gives every link of generate_all_links an
\* interface of its own at each end (a router has as many interfaces as
\* incident links), and convert_links_to_clab_format emits one entry per
\* generated link.
C23_SampleLinksBoundOnce ==
    (pc = "converted" /\ IsSampleWithBase)
        => /\ IsOk(links) /\ IsOk(mappings) /\ IsOk(clab)
           /\ \A i \in 1..Len(routers) :
                Cardinality(DOMAIN mappings.ok[routers[i].name]) =
                    Len(IncidentLinks(links.ok, routers[i].name))
           /\ Len(clab.ok) = Len(links.ok)

\* the unordered endpoint pairs of the links of a list, one per position
EndpointPairs(ls) == [i \in 1..Len(ls) |-> {ls[i].router1_name, ls[i].router2_name}]

\* C24: for every topology type and size, generate_all_links returns a list
\* with no self-link and no two links between the same two routers.
C24_LinksAreSimple ==
    LinksCalled
        => /\ IsOk(links)
           /\ \A i \in 1..Len(links.ok) : links.ok[i].router1_name # links.ok[i].router2_name
           /\ \A i, j \in 1..Len(links.ok) :
                i # j => EndpointPairs(links.ok)[i] # EndpointPairs(links.ok)[j]

\* C25: links.calculate_direction is antisymmetric wherever it returns a
\* Direction: the direction from B to A is the opposite of the direction
\* from A to B, which is also the entry REVERSE_DIRECTION holds for it.
C25_DirectionAntisymmetric ==
    (DirectionReturned /\ call_args.fn = "links" /\ result \in Direction)
        => /\ calculate_direction(call_args.to_coord, call_args.from_coord,
                                  call_args.size, call_args.size) = opposite(result)
           /\ REVERSE_DIRECTION(result) = opposite(result)

\* a wraparound pair of a column, answered NORTH one way and SOUTH the other
C25_Witness ==
    /\ DirectionReturned /\ call_args.fn = "links"
    /\ call_args.size = 4
    /\ ColDelta = 0 /\ RowDelta = call_args.size - 1
    /\ result = "north"
    /\ calculate_direction(call_args.to_coord, call_args.from_coord,
                           call_args.size, call_args.size) = "south"

\* C26: for every SPECIAL configuration the closed-form
\* TopologyConfig.total_links equals the number of links generate_all_links
\* returns.
C26_SpecialTotalLinksMatch ==
    (LinksCalled /\ config.topology_type = "special")
        => /\ IsOk(links)
           /\ total_links(config) = Len(links.ok)

(***************************************************************************)
(* Properties of the routers' neighbor maps (BuildSpec).                    *)
(***************************************************************************)
\* the neighbor function the topology strategy returns for a configuration
StrategyNeighbors(cfg, coord) ==
    NeighborsOf(StrategyGetNeighborsFunc(
                    <<cfg.topology_type, cfg.size, cfg.special_config>>).ok, coord)

\* C27: for every topology type, size and coordinate, the neighbor map of
\* the RouterInfo that _create_router_info builds equals the neighbor map
\* the topology strategy's neighbor function returns for the coordinate.
C27_RouterNeighborsFollowStrategy ==
    pc = "routers"
        => \A i \in 1..Len(routers) :
               routers[i].neighbors = StrategyNeighbors(config, routers[i].coordinate)

(***************************************************************************)
(* generators/config.py: the eBGP interfaces of a router                    *)
(***************************************************************************)
\* the value of the parameter rows of links.calculate_direction when the
\* caller passes no size
DefaultRows == 6

\* the other ends of the edges of a list that contain coord
OtherEnds(coord, edges) ==
    { IF edges[i][1] = coord THEN edges[i][2] ELSE edges[i][1] :
        i \in { k \in 1..Len(edges) : edges[k][1] = coord \/ edges[k][2] = coord } }

\* _get_ebgp_interfaces(router_info, topology_config): the interfaces of the
\* directions calculate_direction(coordinate, other_coord) gives for the
\* internal and the torus bridge edges of the router
get_ebgp_interfaces(router_info, cfg) ==
    IF cfg.special_config = NoValue
    THEN {}
    ELSE { INTERFACE_MAPPING(calculate_direction(router_info.coordinate, other,
                                                 DefaultRows, DefaultRows)) :
             other \in { o \in OtherEnds(router_info.coordinate,
                                         cfg.special_config.internal_bridge_edges
                                         \o cfg.special_config.torus_bridge_edges) :
                           calculate_direction(router_info.coordinate, o,
                                               DefaultRows, DefaultRows) # "none" } }

\* the interfaces of a router that hold its endpoint address on the link of
\* one of its bridge edges
BridgeSlots(im, router_info, cfg) ==
    { intf \in DOMAIN im[router_info.name] :
        \E other \in OtherEnds(router_info.coordinate,
                               cfg.special_config.internal_bridge_edges
                               \o cfg.special_config.torus_bridge_edges) :
            im[router_info.name][intf] = EndpointAddr(cfg.size, router_info.coordinate, other) }

\* C28: for every gateway router of a SPECIAL topology the eBGP interfaces
\* _get_ebgp_interfaces computes are the interfaces that
\* generate_interface_mappings assigned on the router to the links of its
\* internal and torus bridge edges.
C28_EbgpInterfacesAreBridgeSlots ==
    (MappingsCalled /\ config.topology_type = "special")
        => /\ IsOk(mappings)
           /\ \A i \in 1..Len(routers) :
                routers[i].node_type = "gateway"
                    => get_ebgp_interfaces(routers[i], config)
                           = BridgeSlots(mappings.ok, routers[i], config)

\* the order of the steps of generate_topology
StepOrder == <<"directories", "templates", "mappings", "config_files", "yaml">>

\* the steps that write to the file system
WritingSteps == {"directories", "templates", "config_files", "yaml"}

\* C29: generate_topology runs its steps in the order directories,
\* templates, interface mappings, config files, ContainerLab YAML; a step
\* that returns a Failure or raises is the last one and the run returns
\* success = false; the run returns a GenerationResult, never an exception;
\* and it returns success = true only if the four writing steps succeeded.
C29_StepsInOrderAndFailFast ==
    /\ Len(steps) <= Len(StepOrder)
    /\ \A i \in 1..Len(steps) : steps[i].step = StepOrder[i]
    /\ \A i \in 1..Len(steps) :
         steps[i].outcome # "success"
             => /\ i = Len(steps)
                /\ pc = "returned"
                /\ result = GenerationResult(FALSE)
    /\ pc = "returned" => result \in {GenerationResult(TRUE), GenerationResult(FALSE)}
    /\ (pc = "returned" /\ result = GenerationResult(TRUE))
         => \A w \in WritingSteps :
                \E i \in 1..Len(steps) :
                    steps[i].step = w /\ steps[i].outcome = "success"

\* a run whose mappings step raised after two successful writing steps: it
\* returned success = false without a later step
C29_Witness ==
    /\ pc = "returned"
    /\ Len(steps) = 3
    /\ steps[2].outcome = "success"
    /\ steps[3].step = "mappings" /\ steps[3].outcome = "raised"
    /\ result = GenerationResult(FALSE)

\* C30: the directory under which create_all_directories creates the router
\* tree is the directory _get_output_dir returns, the one the engine passes
\* to the template, config-file and YAML writers.
C30_OneBaseDirectory ==
    \A i \in 1..Len(steps) :
        steps[i].step \in WritingSteps => steps[i].base_dir = get_output_dir(config)

====
